---- MODULE Spec2Model ----
(***************************************************************************)
(* A model of the hoyo automation: the check-in error classification, the *)
(* secure session store, the code extraction of the article search, the   *)
(* redeem orchestrator with its ledger, the per-game check-in routines,   *)
(* the program entry points and the command line.                         *)
(*                                                                         *)
(* Text is modelled as sequences of one-character strings, so that        *)
(* lower-casing, substring search and the regular expression of the code  *)
(* search are computed and not assumed.                                    *)
(***************************************************************************)
EXTENDS Integers, Sequences, FiniteSets, TLC

VARIABLES
    ceExc,        \* classify_error: the exception handed to it
    ceOut,        \* classify_error: what it returned, or NoValue before the call
    crypto,       \* CRYPTO_AVAILABLE
    sessionFile,  \* the bytes of hoyo_session_data.json, or no file
    keyFile,      \* the bytes of .session_key, or no file
    keysMade,     \* how many keys Fernet.generate_key() has handed out
    ssSaved,      \* the session a successful save_session stored, while that
                  \* save is the last call or the call just before the last
    ssLast,       \* the last session-store call and what it returned
    ssReg,        \* what the calls so far have put into the store, if known
    srText,       \* search: the text of the article card being read
    srCodes,      \* search: the codes kept from it (filtered_codes)
    srDone,       \* search: the card has been read
    ledgerFile,   \* redeemed_codes.json: its kind and the ledger it holds
    rrPc,         \* main_redeem: "idle", "loop", "save" or "done"
    rrRun,        \* the number of the run, which is also its clock
    redeemed_codes, \* main_redeem: the ledger in memory
    rrStart,      \* the ledger file as it was when the run started
    rrArticle,    \* the search result being processed: game name and codes
    rrArtCount,   \* how many search results the loop has taken
    rrIdx,        \* the index of the next code of rrArticle
    rrInvoked,    \* the <<game_key, code>> the redeem function was called with
    rrRows,       \* how many rows redemption_results has
    rrLastRow,    \* the newest row of redemption_results (game, code, message)
    ciCall,       \* check-in: the routine that returned last and what it did
    mnEntry,      \* which entry point runs: "main", "legacy" or "daily"
    mnPc,         \* where that entry point is
    mnSession,    \* the session data the check-in routines get
    enabled_games, \* the list get_enabled_games returned
    mnIdx,        \* the index of the next game of the loop
    results,      \* game -> result, as far as the loop has come
    mnRaised,     \* the positions of enabled_games whose routine raised
    mnExit,       \* the exit status, once mnPc = "exited"
    mnCause,      \* what ended the run
    cliArgs,      \* command line: the command words of the invocation
    cliPc,        \* command line: "idle", "parsed", "run" or "exited"
    cliIdx,       \* the index of the next command word to run
    cliStarted,   \* the steps (login, checkin, redeem) started so far
    cliExit,      \* the exit status, once cliPc = "exited"
    liCall,       \* login: the last check_login_status call and what it did
    rdCall,       \* redeem: the last call of search or redeem and what it did
    egEnv,        \* config: the environment get_enabled_games reads
    egOut,        \* config: the list get_enabled_games returned
    egDone,       \* config: get_enabled_games has returned for egEnv
    fcIn,         \* search: the arguments of the day-window filter
    fcOut,        \* search: the list search_recent_codes returned
    fcDone        \* search: search_recent_codes has returned for fcIn

classifyVars == <<ceExc, ceOut>>

sessionVars == <<crypto, sessionFile, keyFile, keysMade, ssSaved, ssLast, ssReg>>

searchVars == <<srText, srCodes, srDone>>

redeemVars == <<ledgerFile, rrPc, rrRun, redeemed_codes, rrStart, rrArticle,
                rrArtCount, rrIdx, rrInvoked, rrRows, rrLastRow>>

mainVars == <<mnEntry, mnPc, mnSession, enabled_games, mnIdx, results, mnRaised,
              mnExit, mnCause>>

enabledVars == <<egEnv, egOut, egDone>>
filterVars == <<fcIn, fcOut, fcDone>>
cliVars == <<cliArgs, cliPc, cliIdx, cliStarted, cliExit>>

vars == <<ceExc, ceOut, crypto, sessionFile, keyFile, keysMade, ssSaved, ssLast, ssReg,
          srText, srCodes, srDone, ledgerFile, rrPc, rrRun, redeemed_codes,
          rrStart, rrArticle, rrArtCount, rrIdx, rrInvoked, rrRows, rrLastRow,
          ciCall, mnEntry, mnPc, mnSession, enabled_games, mnIdx, results,
          mnRaised, mnExit, mnCause, cliArgs, cliPc, cliIdx, cliStarted, cliExit,
          liCall, rdCall, egEnv, egOut, egDone, fcIn, fcOut, fcDone>>

NoValue == "none"

(***************************************************************************)
(* Text helpers                                                            *)
(***************************************************************************)
RECURSIVE Join(_)
Join(ws) ==
    IF ws = <<>> THEN <<>>
    ELSE IF Len(ws) = 1 THEN Head(ws)
    ELSE Head(ws) \o <<" ">> \o Join(Tail(ws))

\* str.lower() on the characters the model's texts use
LowerChar(c) ==
    CASE c = "T" -> "t"
      [] c = "C" -> "c"
      [] c = "N" -> "n"
      [] c = "G" -> "g"
      [] c = "I" -> "i"
      [] c = "H" -> "h"
      [] c = "S" -> "s"
      [] c = "R" -> "r"
      [] c = "Z" -> "z"
      [] OTHER -> c

Lower(s) == [i \in 1..Len(s) |-> LowerChar(s[i])]

\* Python's `k in s` on strings
Contains(s, k) ==
    \E i \in 1..(Len(s) - Len(k) + 1) : SubSeq(s, i, i + Len(k) - 1) = k

(***************************************************************************)
(* checkin/exceptions.py                                                   *)
(***************************************************************************)
CheckinResult ==
    {"success", "already_checked_in", "failed",
     "session_expired", "network_error", "timeout_error"}

KW_timeout == <<"t","i","m","e","o","u","t">>
KW_timed_out == <<"t","i","m","e","d"," ","o","u","t">>
KW_network == <<"n","e","t","w","o","r","k">>
KW_connection == <<"c","o","n","n","e","c","t","i","o","n">>
KW_dns == <<"d","n","s">>
KW_session == <<"s","e","s","s","i","o","n">>
KW_login == <<"l","o","g","i","n">>
KW_auth == <<"a","u","t","h">>
KW_unauthorized == <<"u","n","a","u","t","h","o","r","i","z","e","d">>

TimeoutKeywords == {KW_timeout, KW_timed_out}
NetworkKeywords == {KW_network, KW_connection, KW_dns}
SessionKeywords == {KW_session, KW_login, KW_auth, KW_unauthorized}

\* The words error messages are made of: browser and operating-system wording,
\* some of it capitalised.
MessageWords ==
    { <<"T","i","m","e","o","u","t">>,
      KW_timed_out,
      <<"N","e","t","w","o","r","k">>,
      <<"C","o","n","n","e","c","t","i","o","n">>,
      KW_dns,
      KW_session,
      KW_login,
      KW_unauthorized,
      <<"c","l","o","s","e","d">>,
      <<"e","r","r","o","r">> }

MaxWords == 2

WordLists == UNION { [1..n -> MessageWords] : n \in 0..MaxWords }

Messages == { Join(ws) : ws \in WordLists }

\* An exception: a CheckinException carries its result, any other one only
\* its message.
Exceptions ==
    [isCheckin : {FALSE}, result : {"failed"}, msg : Messages]
    \cup [isCheckin : {TRUE}, result : CheckinResult, msg : {<<"c","l","o","s","e","d">>, KW_network}]

HasAny(s, kws) == \E k \in kws : Contains(s, k)

\* the same classification with the lower-casing of the message left out
classify_error_nolower(exception) ==
    IF exception.isCheckin THEN exception.result
    ELSE IF HasAny(exception.msg, TimeoutKeywords) THEN "timeout_error"
    ELSE IF HasAny(exception.msg, NetworkKeywords) THEN "network_error"
    ELSE IF HasAny(exception.msg, SessionKeywords) THEN "session_expired"
    ELSE "failed"

\* the same classification with the network keywords tested first
classify_error_network_first(exception) ==
    LET error_str == Lower(exception.msg) IN
    IF exception.isCheckin THEN exception.result
    ELSE IF HasAny(error_str, NetworkKeywords) THEN "network_error"
    ELSE IF HasAny(error_str, TimeoutKeywords) THEN "timeout_error"
    ELSE IF HasAny(error_str, SessionKeywords) THEN "session_expired"
    ELSE "failed"

classify_error(exception) ==
    LET error_str == Lower(exception.msg) IN
    IF exception.isCheckin THEN exception.result
    ELSE IF HasAny(error_str, TimeoutKeywords) THEN "timeout_error"
    ELSE IF HasAny(error_str, NetworkKeywords) THEN "network_error"
    ELSE IF HasAny(error_str, SessionKeywords) THEN "session_expired"
    ELSE "failed"

\* no exception is being classified
NoExc == [isCheckin |-> FALSE, result |-> NoValue, msg |-> <<>>]

ClassifyIdle == ceExc = NoExc /\ ceOut = NoValue

ClassifyInit == ceExc \in Exceptions /\ ceOut = NoValue

Classify ==
    /\ ceExc # NoExc
    /\ ceOut = NoValue
    /\ ceOut' = classify_error(ceExc)
    /\ UNCHANGED ceExc

\* the next error to classify
ClassifyRaise ==
    /\ ceOut # NoValue
    /\ ceExc' \in Exceptions
    /\ ceOut' = NoValue

(***************************************************************************)
(* auth/secure_session.py                                                  *)
(***************************************************************************)
EmptyDict == [k \in {} |-> ""]

\* cookies as the browser hands them out, and one that lacks its domain
Cookie1 == [name |-> "ltoken", value |-> "v1", domain |-> ".hoyolab.com"]
Cookie2 == [name |-> "ltuid", value |-> "v2", domain |-> ".hoyolab.com", path |-> "/"]
CookieNoDomain == [name |-> "mi18nLang", value |-> "en-us"]

AllCookies == {Cookie1, Cookie2, CookieNoDomain}

MaxCookies == 1

CookieLists == UNION { [1..n -> AllCookies] : n \in 0..MaxCookies }

\* the local_storage argument: None (not given), {} or a mapping
LocalStorageArgs ==
    { [isNone |-> TRUE, val |-> EmptyDict],
      [isNone |-> FALSE, val |-> EmptyDict],
      [isNone |-> FALSE, val |-> [theme |-> "dark"]] }

\* json.dumps writes a dict as its items in order, json.loads reads them back
KeyOrder == <<"name", "value", "domain", "path", "theme">>

JsonDumpsDict(d) ==
    LET keys == SelectSeq(KeyOrder, LAMBDA k : k \in DOMAIN d)
    IN [i \in 1..Len(keys) |-> <<keys[i], d[keys[i]]>>]

JsonLoadsDict(items) ==
    [k \in {items[i][1] : i \in 1..Len(items)} |->
        LET last == CHOOSE i \in 1..Len(items) :
                       /\ items[i][1] = k
                       /\ \A j \in (i+1)..Len(items) : items[j][1] # k
        IN items[last][2]]

\* a dump that writes the cookies and leaves local_storage empty
JsonDumpsCookiesOnly(data) ==
    [hasCookies |-> TRUE,
     cookies |-> [i \in 1..Len(data.cookies) |-> JsonDumpsDict(data.cookies[i])],
     local_storage |-> <<>>]

\* the JSON text of a session: {"cookies": [...], "local_storage": {...}}
JsonDumps(data) ==
    [hasCookies |-> TRUE,
     cookies |-> [i \in 1..Len(data.cookies) |-> JsonDumpsDict(data.cookies[i])],
     local_storage |-> JsonDumpsDict(data.local_storage)]

JsonLoads(text) ==
    [hasCookies |-> text.hasCookies,
     cookies |-> [i \in 1..Len(text.cookies) |-> JsonLoadsDict(text.cookies[i])],
     local_storage |-> JsonLoadsDict(text.local_storage)]

\* JSON text that parses but is no session: {"local_storage": {}}
TextNoCookies == [hasCookies |-> FALSE, cookies |-> <<>>, local_storage |-> <<>>]

\* File contents.  kind: "absent" (no file), "empty", "garbage" (bytes that
\* are neither JSON nor a Fernet token), "json" (plain JSON text), "fernet"
\* (a token made with `key` over `text`).
NoFile == [kind |-> "absent", key |-> 0, text |-> TextNoCookies]
EmptyFile == [kind |-> "empty", key |-> 0, text |-> TextNoCookies]
GarbageFile == [kind |-> "garbage", key |-> 0, text |-> TextNoCookies]
PlainBytes(text) == [kind |-> "json", key |-> 0, text |-> text]

\* Fernet(key).encrypt(data)
FernetEncrypt(key, text) == [kind |-> "fernet", key |-> key, text |-> text]

\* Fernet(key).decrypt(token) raises InvalidToken unless the token was made
\* with the same key
FernetDecryptOk(key, bytes) == bytes.kind = "fernet" /\ bytes.key = key

\* Key-file contents: no file, a key Fernet accepts, or bytes it rejects
NoKeyFile == [kind |-> "absent", key |-> 0]
BadKeyFile == [kind |-> "bad", key |-> 0]
KeyBytes(k) == [kind |-> "key", key |-> k]

MaxKeys == 3

\* where a call can meet an I/O error
SaveFaultPoints ==
    {"key_read", "key_open", "key_write", "key_chmod",
     "sess_open", "sess_write", "sess_chmod"}
LoadFaultPoints ==
    {"sess_stat", "sess_read", "key_read", "key_open", "key_write", "key_chmod"}
ClearFaultPoints == {"sess_stat", "sess_unlink", "key_unlink"}

\* a call meets no I/O error, or one
FaultSets(points) == {{}} \cup { {p} : p \in points }

\* SecureSessionManager._validate_session_data
validate_session_data(data) ==
    /\ data.hasCookies
    /\ \A i \in 1..Len(data.cookies) :
           {"name", "value", "domain"} \subseteq DOMAIN data.cookies[i]

\* SecureSessionManager._get_or_create_key, called with crypto available:
\* the key it returns (or raised), and the key file and key count it leaves
get_or_create_key(F) ==
    IF keyFile.kind # "absent" /\ "key_read" \notin F
    THEN [raised |-> FALSE, key |-> keyFile, keyFile |-> keyFile, made |-> keysMade]
    ELSE LET new == KeyBytes(keysMade + 1) IN
         IF "key_open" \in F
         THEN [raised |-> TRUE, key |-> new, keyFile |-> keyFile, made |-> keysMade + 1]
         ELSE IF "key_write" \in F
         THEN [raised |-> TRUE, key |-> new, keyFile |-> BadKeyFile, made |-> keysMade + 1]
         ELSE IF "key_chmod" \in F
         THEN [raised |-> TRUE, key |-> new, keyFile |-> new, made |-> keysMade + 1]
         ELSE [raised |-> FALSE, key |-> new, keyFile |-> new, made |-> keysMade + 1]

\* a call that has to generate a key needs one left to hand out
KeyAvailable(F) ==
    (crypto /\ (keyFile.kind = "absent" \/ "key_read" \in F)) => keysMade < MaxKeys

\* SecureSessionManager._encrypt_data
encrypt_data(data, F) ==
    IF ~crypto
    THEN [raised |-> FALSE, bytes |-> PlainBytes(JsonDumps(data)),
          keyFile |-> keyFile, made |-> keysMade]
    ELSE LET k == get_or_create_key(F) IN
         [raised |-> k.raised \/ k.key.kind # "key",
          bytes |-> FernetEncrypt(k.key.key, JsonDumps(data)),
          keyFile |-> k.keyFile, made |-> k.made]

\* SecureSessionManager._decrypt_data
decrypt_data(bytes, F) ==
    IF ~crypto
    THEN [raised |-> bytes.kind # "json", data |-> JsonLoads(bytes.text),
          keyFile |-> keyFile, made |-> keysMade]
    ELSE LET k == get_or_create_key(F) IN
         [raised |-> \/ k.raised
                     \/ k.key.kind # "key"
                     \/ ~FernetDecryptOk(k.key.key, bytes),
          data |-> JsonLoads(bytes.text),
          keyFile |-> k.keyFile, made |-> k.made]

\* the session_data dict save_session builds: `local_storage or {}`
SessionData(cookies, local_storage) ==
    [hasCookies |-> TRUE,
     cookies |-> cookies,
     local_storage |-> IF local_storage.isNone THEN EmptyDict ELSE local_storage.val]

NoSession == [hasCookies |-> FALSE, cookies |-> <<>>, local_storage |-> EmptyDict]

\* SecureSessionManager.save_session: what it returns and the files it leaves
save_session(cookies, local_storage, F) ==
    LET data == SessionData(cookies, local_storage)
        e == encrypt_data(data, F)
    IN  IF ~validate_session_data(data)
        THEN [ret |-> FALSE, sessionFile |-> sessionFile,
              keyFile |-> keyFile, made |-> keysMade]
        ELSE IF e.raised
        THEN [ret |-> FALSE, sessionFile |-> sessionFile,
              keyFile |-> e.keyFile, made |-> e.made]
        ELSE IF "sess_open" \in F
        THEN [ret |-> FALSE, sessionFile |-> sessionFile,
              keyFile |-> e.keyFile, made |-> e.made]
        ELSE IF "sess_write" \in F
        THEN [ret |-> FALSE, sessionFile |-> EmptyFile,
              keyFile |-> e.keyFile, made |-> e.made]
        ELSE IF "sess_chmod" \in F
        THEN [ret |-> FALSE, sessionFile |-> e.bytes,
              keyFile |-> e.keyFile, made |-> e.made]
        ELSE [ret |-> TRUE, sessionFile |-> e.bytes,
              keyFile |-> e.keyFile, made |-> e.made]

\* SecureSessionManager.load_session: raised, or None, or the session; and
\* the key file it leaves
load_session(F) ==
    LET d == decrypt_data(sessionFile, F)
        none == [raised |-> FALSE, isNone |-> TRUE, data |-> NoSession,
                 keyFile |-> keyFile, made |-> keysMade]
    IN  IF "sess_stat" \in F
        THEN [none EXCEPT !.raised = TRUE]
        ELSE IF sessionFile.kind = "absent" THEN none
        ELSE IF "sess_read" \in F THEN none
        ELSE IF sessionFile.kind = "empty" THEN none
        ELSE IF d.raised
        THEN [none EXCEPT !.keyFile = d.keyFile, !.made = d.made]
        ELSE IF ~validate_session_data(d.data)
        THEN [none EXCEPT !.keyFile = d.keyFile, !.made = d.made]
        ELSE [raised |-> FALSE, isNone |-> FALSE, data |-> d.data,
              keyFile |-> d.keyFile, made |-> d.made]

\* SecureSessionManager.clear_session: what it returns and the files it leaves
clear_session(F) ==
    IF "sess_stat" \in F
    THEN [ret |-> FALSE, sessionFile |-> sessionFile, keyFile |-> keyFile]
    ELSE IF sessionFile.kind # "absent" /\ "sess_unlink" \in F
    THEN [ret |-> FALSE, sessionFile |-> sessionFile, keyFile |-> keyFile]
    ELSE IF keyFile.kind # "absent" /\ "key_unlink" \in F
    THEN [ret |-> FALSE, sessionFile |-> NoFile, keyFile |-> keyFile]
    ELSE [ret |-> TRUE, sessionFile |-> NoFile, keyFile |-> NoKeyFile]

\* What the calls so far have put into the store: nothing is known of a
\* directory left by earlier runs, or after a clear_session that failed.
UnknownStore == [known |-> FALSE, has |-> FALSE, data |-> NoSession]
EmptyStore == [known |-> TRUE, has |-> FALSE, data |-> NoSession]
Stored(data) == [known |-> TRUE, has |-> TRUE, data |-> data]

\* The record of a call.  op: "save", "load" or "clear"; ret: what save_session
\* or clear_session returned; raised, isNone, data: how load_session ended; valid: the cookies
\* given to save_session pass validation; clean: the call met no I/O error;
\* keyOk: the key file held no unusable key when the call began.
NoCall == [op |-> "none", ret |-> FALSE, raised |-> FALSE, isNone |-> TRUE,
           data |-> NoSession, valid |-> FALSE, clean |-> TRUE, keyOk |-> TRUE]

SessionIdle ==
    /\ crypto = FALSE
    /\ sessionFile = NoFile
    /\ keyFile = NoKeyFile
    /\ keysMade = 0
    /\ ssSaved = NoSession
    /\ ssLast = NoCall
    /\ ssReg = UnknownStore

\* what earlier runs can have left in the session directory
SessionInit ==
    /\ crypto \in BOOLEAN
    /\ keysMade = 1
    /\ keyFile \in {NoKeyFile, KeyBytes(1), BadKeyFile}
    /\ sessionFile \in
         {NoFile, EmptyFile, GarbageFile,
          PlainBytes(JsonDumps(SessionData(<<Cookie1>>, [isNone |-> TRUE, val |-> EmptyDict]))),
          PlainBytes(TextNoCookies),
          FernetEncrypt(1, JsonDumps(SessionData(<<Cookie1>>, [isNone |-> TRUE, val |-> EmptyDict]))),
          FernetEncrypt(1, TextNoCookies)}
    /\ ssSaved = NoSession
    /\ ssLast = NoCall
    /\ ssReg = UnknownStore

SaveSession ==
    \E cookies \in CookieLists, ls \in LocalStorageArgs, F \in FaultSets(SaveFaultPoints) :
        /\ KeyAvailable(F)
        /\ \E r \in {save_session(cookies, ls, F)} :
           /\ sessionFile' = r.sessionFile
           /\ keyFile' = r.keyFile
           /\ keysMade' = r.made
           /\ ssSaved' = IF r.ret THEN SessionData(cookies, ls) ELSE NoSession
           /\ ssLast' = [op |-> "save", ret |-> r.ret, raised |-> FALSE,
                         isNone |-> TRUE, data |-> NoSession,
                         valid |-> validate_session_data(SessionData(cookies, ls)),
                         clean |-> F = {}, keyOk |-> keyFile.kind # "bad"]
        /\ UNCHANGED crypto

LoadSession ==
    \E F \in FaultSets(LoadFaultPoints) :
        /\ KeyAvailable(F)
        /\ \E r \in {load_session(F)} :
           /\ keyFile' = r.keyFile
           /\ keysMade' = r.made
           /\ ssLast' = [op |-> "load", ret |-> FALSE, raised |-> r.raised,
                         isNone |-> r.isNone, data |-> r.data,
                         valid |-> FALSE, clean |-> F = {}, keyOk |-> keyFile.kind # "bad"]
        /\ ssSaved' = IF ssLast.op = "save" THEN ssSaved ELSE NoSession
        /\ UNCHANGED <<crypto, sessionFile>>

ClearSession ==
    \E F \in FaultSets(ClearFaultPoints) :
        /\ \E r \in {clear_session(F)} :
           /\ sessionFile' = r.sessionFile
           /\ keyFile' = r.keyFile
           /\ ssLast' = [op |-> "clear", ret |-> r.ret, raised |-> FALSE,
                         isNone |-> TRUE, data |-> NoSession,
                         valid |-> FALSE, clean |-> F = {}, keyOk |-> keyFile.kind # "bad"]
        /\ ssSaved' = NoSession
        /\ UNCHANGED <<crypto, keysMade>>

\* the calls on one session directory, with what they put into the store
RegisterSave ==
    /\ SaveSession
    /\ ssReg' = IF ssLast'.ret THEN Stored(ssSaved') ELSE ssReg

RegisterLoad == LoadSession /\ UNCHANGED ssReg

RegisterClear ==
    /\ ClearSession
    /\ ssReg' = IF ssLast'.ret THEN EmptyStore ELSE UnknownStore

(***************************************************************************)
(* redeem/search.py: the code extraction of search()                      *)
(***************************************************************************)
Digits == {"1", "2", "3", "4", "5"}
Letters == {"A", "B", "C", "D", "E", "F", "G", "H",
            "U", "s", "e", "c", "o", "d", "b", "f", "r"}

IsAlnum(c) == c \in Digits \cup Letters     \* [0-9a-zA-Z]
IsWordChar(c) == IsAlnum(c) \/ c = "_"      \* \w

\* the pieces article texts are made of
TextPieces ==
    { <<"A","B","C","D","E","1","2","3">>,
      <<"A","B","C","D","E">>,
      <<"A","B","C","D","E","F","G","H">>,
      <<"1","2","3","4","5">>,
      <<"A","1","B","2">>,
      <<".">>, <<"_">>, <<" ">> }

MaxPieces == 3

RECURSIVE Concat(_)
Concat(ps) == IF ps = <<>> THEN <<>> ELSE Head(ps) \o Concat(Tail(ps))

\* "Use code ABCDE123 before..."
ExampleText ==
    <<"U","s","e"," ","c","o","d","e"," ","A","B","C","D","E","1","2","3",
      " ","b","e","f","o","r","e",".",".",".">>

ArticleTexts ==
    { Concat(ps) : ps \in UNION { [1..n -> TextPieces] : n \in 0..MaxPieces } }
    \cup {ExampleText}

\* str.strip()
RECURSIVE Strip(_)
Strip(t) ==
    IF t = <<>> THEN t
    ELSE IF Head(t) = " " THEN Strip(Tail(t))
    ELSE IF t[Len(t)] = " " THEN Strip(SubSeq(t, 1, Len(t) - 1))
    ELSE t

\* \b between positions i-1 and i of t (i in 1..Len(t)+1)
WordBoundary(t, i) ==
    LET before == i > 1 /\ IsWordChar(t[i-1])
        after == i <= Len(t) /\ IsWordChar(t[i])
    IN before # after

\* (?<!\.) and (?!\.) at position i: the character before, or at, i is no dot
NoDotBefore(t, i) == i = 1 \/ t[i-1] # "."
NoDotAt(t, i) == i > Len(t) \/ t[i] # "."

\* A match of (?<!\.)\b[0-9a-zA-Z]{5,}\b(?!\.) starting at i: the last
\* position of the match, 0 when there is none.  The repetition is greedy and
\* gives characters back until \b and the lookahead succeed.
MatchEnd(t, i) ==
    IF ~(NoDotBefore(t, i) /\ WordBoundary(t, i)) THEN 0
    ELSE LET ends == { j \in (i+4)..Len(t) :
                         /\ \A k \in i..j : IsAlnum(t[k])
                         /\ WordBoundary(t, j + 1)
                         /\ NoDotAt(t, j + 1) }
         IN IF ends = {} THEN 0
            ELSE CHOOSE j \in ends : \A k \in ends : k <= j

\* re.findall(code_pattern, content_text) from position i on
RECURSIVE FindAll(_, _)
FindAll(t, i) ==
    IF i > Len(t) THEN <<>>
    ELSE LET j == MatchEnd(t, i) IN
         IF j = 0 THEN FindAll(t, i + 1)
         ELSE <<SubSeq(t, i, j)>> \o FindAll(t, j + 1)

IsDigitStr(code) == \A k \in 1..Len(code) : code[k] \in Digits    \* str.isdigit
IsAlphaStr(code) == \A k \in 1..Len(code) : code[k] \in Letters   \* str.isalpha

MinAlphaLen == 8

\* the filter with the all-letters test left out
KeepCodeNoAlphaTest(code) == ~IsDigitStr(code)

\* the filter loop of search(): a code is kept unless it is all digits, or
\* all letters and shorter than 8
KeepCode(code) ==
    /\ ~IsDigitStr(code)
    /\ ~(IsAlphaStr(code) /\ Len(code) < MinAlphaLen)

filtered_codes(content_text) ==
    SelectSeq(FindAll(Strip(content_text), 1), KeepCode)

SearchIdle == srText = <<>> /\ srCodes = <<>> /\ srDone = FALSE

SearchInit == srText \in ArticleTexts /\ srCodes = <<>> /\ srDone = FALSE

(***************************************************************************)
(* checkin/base_checkin.py: the check-in routine of one game               *)
(***************************************************************************)
\* session_data as the routine receives it: None, a dict without cookies,
\* a dict with cookies
CheckinSessions == {"none", "no_cookies", "cookies"}

\* what the claim page does during one check-in: the popup, the reward
\* elements, the two ways of clicking, the success text and the dialog
PageEnvs ==
    [popup : {"absent", "closed", "raise"},
     items : {"zero", "unclickable", "clickable"},
     direct : {"ok", "raise_before", "raise_after"},
     js : {"ok", "no_selector", "raise_before", "raise_after"},
     text : {"appears", "timeout"},
     dialog : {"absent", "text", "other"}]

\* the errors a browser call raises
BrowserErrors ==
    [isCheckin : {FALSE}, result : {"failed"},
     msg : {KW_timeout, KW_connection, <<"c","l","o","s","e","d">>}]

\* the browser calls of a routine that nothing around them expects to fail
CheckinFaultPoints ==
    {"launch", "new_context", "add_cookies", "new_page", "goto", "dialog_wait",
     "load_wait", "settle", "find", "dialog_count", "close"}

NoFault == [at |-> "none", exc |-> NoExc]

\* at most one of these calls raises during one routine
CheckinFaults == {NoFault} \cup [at : CheckinFaultPoints, exc : BrowserErrors]

\* what a routine did up to a point: the value it returns or "raised" with
\* the exception, the browser calls made, whether the click step reported
\* success, how often the reward element was clicked
Returned(v, tr, ok, n) ==
    [ret |-> v, exc |-> NoExc, trace |-> tr, click_ok |-> ok, clicked |-> n]

Raised(e, tr, ok, n) ==
    [ret |-> "raised", exc |-> e, trace |-> tr, click_ok |-> ok, clicked |-> n]

\* BaseCheckin._verify_success after a click that worked
verify_success(env, fault, tr, n) ==
    IF env.text = "appears" THEN Returned("success", tr \o <<"verify">>, TRUE, n)
    ELSE IF fault.at = "dialog_count"
         THEN Raised(fault.exc, tr \o <<"verify">>, TRUE, n)
    ELSE Returned("success", tr \o <<"verify">>, TRUE, n)

\* a fallback whose answer is not looked at: the verification runs whether
\* the script-injected click worked or not
fallback_javascript_click_unchecked(env, fault, tr, n) ==
    verify_success(env, fault, tr \o <<"js_click">>, n)

\* BaseCheckin._fallback_javascript_click, then what _execute_checkin_flow
\* does with its answer
fallback_javascript_click(env, fault, tr, n) ==
    CASE env.js = "no_selector" -> Returned("failed", tr, FALSE, n)
      [] env.js = "raise_before" -> Returned("failed", tr \o <<"js_click">>, FALSE, n)
      [] env.js = "raise_after" -> Returned("failed", tr \o <<"js_click">>, FALSE, n + 1)
      [] OTHER -> verify_success(env, fault, tr \o <<"js_click">>, n + 1)

\* BaseCheckin._attempt_click: scroll, hover, click, wait; any error in
\* these goes to the script-injected click
attempt_click(env, fault, tr) ==
    CASE env.direct = "ok" -> verify_success(env, fault, tr \o <<"click">>, 1)
      [] env.direct = "raise_before" ->
            fallback_javascript_click(env, fault, tr \o <<"click">>, 0)
      [] OTHER -> fallback_javascript_click(env, fault, tr \o <<"click">>, 1)

\* BaseCheckin._execute_checkin_flow
execute_checkin_flow(env, fault, tr) ==
    IF fault.at = "goto" THEN Raised(fault.exc, tr \o <<"goto">>, FALSE, 0)
    ELSE IF fault.at = "dialog_wait"
         THEN Raised(fault.exc, tr \o <<"goto", "close_popups">>, FALSE, 0)
    ELSE IF fault.at = "settle"
         THEN Raised(fault.exc, tr \o <<"goto", "close_popups", "settle">>, FALSE, 0)
    ELSE IF fault.at = "find"
         THEN Raised(fault.exc, tr \o <<"goto", "close_popups", "settle", "find">>,
                     FALSE, 0)
    ELSE IF env.items # "clickable"
         THEN Returned("already_checked_in",
                       tr \o <<"goto", "close_popups", "settle", "find">>, FALSE, 0)
    ELSE attempt_click(env, fault, tr \o <<"goto", "close_popups", "settle", "find">>)

\* the try block of perform_checkin without the test of _setup_session
checkin_try_unchecked(session_data, env, fault) ==
    IF fault.at = "new_page"
    THEN Raised(fault.exc,
                <<"launch", "new_context", "add_cookies", "new_page">>, FALSE, 0)
    ELSE execute_checkin_flow(env, fault,
                <<"launch", "new_context", "add_cookies", "new_page">>)

\* the try block of perform_checkin
checkin_try(session_data, env, fault) ==
    IF session_data # "cookies"
    THEN Returned("session_expired", <<"launch", "new_context">>, FALSE, 0)
    ELSE IF fault.at = "add_cookies"
         THEN Returned("session_expired",
                       <<"launch", "new_context", "add_cookies">>, FALSE, 0)
    ELSE IF fault.at = "new_page"
         THEN Raised(fault.exc,
                     <<"launch", "new_context", "add_cookies", "new_page">>, FALSE, 0)
    ELSE execute_checkin_flow(env, fault,
                     <<"launch", "new_context", "add_cookies", "new_page">>)

\* with sync_playwright() as p: leaving the block, by return or by an
\* exception, stops Playwright, and the browser it launched ends with it
sync_playwright_detached(r) == r

sync_playwright(r) == [r EXCEPT !.trace = Append(@, "stop"), !.open = FALSE]

\* BaseCheckin.perform_checkin: launch, the try block, its handler that
\* classifies the error, and browser.close() in the finally clause, all
\* inside the with block.  The record also says whether the browser is
\* still open at the end.
perform_checkin(session_data, env, fault) ==
    sync_playwright(
    IF fault.at = "launch"
    THEN [open |-> FALSE] @@ Raised(fault.exc, <<"launch">>, FALSE, 0)
    ELSE IF fault.at = "new_context"
         THEN [open |-> TRUE] @@ Raised(fault.exc, <<"launch", "new_context">>, FALSE, 0)
    ELSE LET t == checkin_try(session_data, env, fault)
             h == IF t.ret = "raised"
                  THEN [t EXCEPT !.ret = classify_error(t.exc), !.exc = NoExc]
                  ELSE t
         IN IF fault.at = "close"
            THEN [open |-> TRUE] @@
                 [h EXCEPT !.ret = "raised", !.exc = fault.exc,
                           !.trace = Append(@, "close")]
            ELSE [open |-> FALSE] @@ [h EXCEPT !.trace = Append(@, "close")])

(***************************************************************************)
(* checkin/hsr_checkin.py: the older routine, a function of its own        *)
(***************************************************************************)
\* the click of perform_hsr_checkin and its script-injected fallback
hsr_click(env, fault, tr) ==
    LET js(n) ==
            CASE env.js = "raise_before" -> Returned("False", tr \o <<"click", "js_click">>, FALSE, n)
              [] env.js = "raise_after" -> Returned("False", tr \o <<"click", "js_click">>, FALSE, n + 1)
              [] OTHER -> verify_success(env, fault, tr \o <<"click", "js_click">>, n + 1)
    IN CASE env.direct = "ok" -> verify_success(env, fault, tr \o <<"click">>, 1)
         [] env.direct = "raise_before" -> js(0)
         [] OTHER -> js(1)

\* the try block of perform_hsr_checkin up to its return statements
hsr_try(env, fault, tr) ==
    IF fault.at = "goto" THEN Raised(fault.exc, tr \o <<"goto">>, FALSE, 0)
    ELSE IF fault.at = "load_wait"
         THEN Raised(fault.exc, tr \o <<"goto", "load_wait">>, FALSE, 0)
    ELSE IF fault.at = "settle"
         THEN Raised(fault.exc, tr \o <<"goto", "load_wait", "close_popups", "settle">>,
                     FALSE, 0)
    ELSE IF fault.at = "find"
         THEN Raised(fault.exc,
                     tr \o <<"goto", "load_wait", "close_popups", "settle", "find">>,
                     FALSE, 0)
    ELSE IF env.items = "zero"
         THEN Returned("failed",
                       tr \o <<"goto", "load_wait", "close_popups", "settle", "find">>,
                       FALSE, 0)
    ELSE IF env.items = "unclickable"
         THEN Returned("already_checked_in",
                       tr \o <<"goto", "load_wait", "close_popups", "settle", "find">>,
                       FALSE, 0)
    ELSE hsr_click(env, fault,
                   tr \o <<"goto", "load_wait", "close_popups", "settle", "find">>)

\* perform_hsr_checkin: every return statement closes the browser itself;
\* an error inside the try block, one of browser.close() included, goes to
\* the handler, which closes the browser and returns "failed"
perform_hsr_checkin(session_data, env, fault) ==
    LET outside(r) ==
            IF fault.at = "close"
            THEN [open |-> TRUE] @@
                 [r EXCEPT !.ret = "raised", !.exc = fault.exc,
                           !.trace = Append(@, "close")]
            ELSE [open |-> FALSE] @@ [r EXCEPT !.trace = Append(@, "close")]
        inside(r) ==
            IF r.ret = "raised"
            THEN [open |-> FALSE] @@
                 [r EXCEPT !.ret = "failed", !.exc = NoExc,
                           !.trace = Append(@, "close")]
            ELSE IF fault.at = "close"
            THEN [open |-> FALSE] @@
                 [r EXCEPT !.ret = "failed", !.trace = @ \o <<"close", "close">>]
            ELSE [open |-> FALSE] @@ [r EXCEPT !.trace = Append(@, "close")]
    IN sync_playwright(
       IF fault.at = "launch"
       THEN [open |-> FALSE] @@ Raised(fault.exc, <<"launch">>, FALSE, 0)
       ELSE IF fault.at = "new_context"
       THEN [open |-> TRUE] @@ Raised(fault.exc, <<"launch", "new_context">>, FALSE, 0)
       ELSE IF session_data # "cookies"
       THEN outside(Returned("False", <<"launch", "new_context">>, FALSE, 0))
       ELSE IF fault.at = "add_cookies"
       THEN outside(Returned("False", <<"launch", "new_context", "add_cookies">>,
                             FALSE, 0))
       ELSE IF fault.at = "new_page"
       THEN [open |-> TRUE] @@
            Raised(fault.exc, <<"launch", "new_context", "add_cookies", "new_page">>,
                   FALSE, 0)
       ELSE inside(hsr_try(env, fault,
                           <<"launch", "new_context", "add_cookies", "new_page">>)))

\* the inputs of a call, kept next to what the call did
CallOf(routine, session_data, env, fault) ==
    [routine |-> routine, session |-> session_data, page |-> env, fault |-> fault]

NoCheckin == [routine |-> NoValue]

CheckinIdle == ciCall = NoCheckin

\* a BaseCheckin routine runs
PerformCheckin ==
    /\ ciCall = NoCheckin
    /\ \E sd \in CheckinSessions, env \in PageEnvs, fault \in CheckinFaults :
        /\ fault.at # "load_wait"
        /\ ciCall' = CallOf("base", sd, env, fault) @@ perform_checkin(sd, env, fault)

\* the older Honkai Star Rail routine runs
PerformHsrCheckin ==
    /\ ciCall = NoCheckin
    /\ \E sd \in CheckinSessions, env \in PageEnvs, fault \in CheckinFaults :
        /\ env.js # "no_selector"
        /\ fault.at # "dialog_wait"
        /\ ciCall' = CallOf("hsr", sd, env, fault) @@ perform_hsr_checkin(sd, env, fault)

\* the caller has taken the result
CheckinReturn ==
    /\ ciCall # NoCheckin
    /\ ciCall' = NoCheckin

(***************************************************************************)
(* checkin/checkin.py, main.py, checkin/main.py: the runs over the games   *)
(***************************************************************************)
Games == {"gi", "hsr", "zzz"}

MaxEnabled == 3

\* what get_enabled_games can return: a list of games that is not empty
EnabledLists == UNION { [1..n -> Games] : n \in 1..MaxEnabled }

\* what a BaseCheckin routine can do with a session: return a result or raise
BaseOutcomes ==
    { [session |-> sd, ret |-> perform_checkin(sd, env, fault).ret] :
        sd \in CheckinSessions, env \in PageEnvs,
        fault \in {f \in CheckinFaults : f.at # "load_wait"} }

\* the same for the older routines; perform_gi_checkin and perform_zzz_checkin
\* launch the browser, guard the page work and return as perform_hsr_checkin
LegacyOutcomes ==
    { [session |-> sd, ret |-> perform_hsr_checkin(sd, env, fault).ret] :
        sd \in CheckinSessions, env \in {e \in PageEnvs : e.js # "no_selector"},
        fault \in {f \in CheckinFaults : f.at # "dialog_wait"} }

\* perform_game_checkin with its handler left out: the error goes on
perform_game_checkin_nocatch(ret) == ret

\* perform_game_checkin: whatever the routine raises becomes FAILED
perform_game_checkin(ret) == IF ret = "raised" THEN "failed" ELSE ret

NoResults == [g \in {} |-> "failed"]

MainIdle ==
    /\ mnEntry = NoValue
    /\ mnPc = "idle"
    /\ mnSession = "none"
    /\ enabled_games = <<>>
    /\ mnIdx = 1
    /\ results = NoResults
    /\ mnRaised = {}
    /\ mnExit = 0
    /\ mnCause = NoValue

\* sys.exit(status)
Exit(status, cause) ==
    /\ mnPc' = "exited"
    /\ mnExit' = status
    /\ mnCause' = cause

\* main() of main.py reads its configuration, main() of checkin/main.py
\* starts, or main_checkin is called with the session data
MainStart ==
    /\ mnPc = "idle"
    /\ \E entry \in {"main", "legacy", "daily"}, from_env \in {"ok", "raise"},
          sd \in CheckinSessions :
        /\ mnEntry' = entry
        /\ IF entry = "main" /\ from_env = "raise"
           THEN Exit(1, "error") /\ UNCHANGED mnSession
           ELSE IF entry = "daily"
           THEN mnPc' = "enabled" /\ mnSession' = sd /\ UNCHANGED <<mnExit, mnCause>>
           ELSE mnPc' = "login" /\ UNCHANGED <<mnSession, mnExit, mnCause>>
    /\ UNCHANGED <<enabled_games, mnIdx, results, mnRaised>>

\* if not check_login_status(): sys.exit(1)
CheckLoginStatus ==
    /\ mnPc = "login"
    /\ \E login \in {"verified", "not_verified", "raise"}, sd \in CheckinSessions :
        CASE login = "not_verified" ->
                Exit(1, "login") /\ UNCHANGED <<mnSession, enabled_games>>
          [] login = "raise" ->
                Exit(1, "error") /\ UNCHANGED <<mnSession, enabled_games>>
          [] OTHER ->
                IF mnEntry = "main"
                THEN /\ mnPc' = "session"
                     /\ UNCHANGED <<mnSession, enabled_games, mnExit, mnCause>>
                ELSE /\ mnPc' = "games"
                     /\ mnSession' = sd
                     /\ enabled_games' = <<"gi", "hsr", "zzz">>
                     /\ UNCHANGED <<mnExit, mnCause>>
    /\ UNCHANGED <<mnEntry, mnIdx, results, mnRaised>>

\* session_data = load_session(); if not session_data: sys.exit(1)
LoadSessionData ==
    /\ mnPc = "session"
    /\ \E loaded \in {"cookies", "no_cookies", "none", "raise"} :
        CASE loaded = "none" -> Exit(1, "no_session") /\ UNCHANGED mnSession
          [] loaded = "raise" -> Exit(1, "error") /\ UNCHANGED mnSession
          [] OTHER -> /\ mnPc' = "enabled"
                      /\ mnSession' = loaded
                      /\ UNCHANGED <<mnExit, mnCause>>
    /\ UNCHANGED <<mnEntry, enabled_games, mnIdx, results, mnRaised>>

GetEnabledGames ==
    /\ mnPc = "enabled"
    /\ enabled_games' \in EnabledLists
    /\ mnPc' = "games"
    /\ UNCHANGED <<mnEntry, mnSession, mnIdx, results, mnRaised, mnExit, mnCause>>

\* the body of the loop over the games, for the next game
GameCheckin ==
    /\ mnPc = "games"
    /\ mnIdx <= Len(enabled_games)
    /\ LET game == enabled_games[mnIdx] IN
       \E o \in IF mnEntry = "legacy" THEN LegacyOutcomes ELSE BaseOutcomes :
        /\ o.session = mnSession
        /\ mnRaised' = IF o.ret = "raised" THEN mnRaised \cup {mnIdx} ELSE mnRaised
        /\ LET result == IF mnEntry = "legacy" THEN o.ret
                         ELSE perform_game_checkin(o.ret)
           IN IF result = "raised"
              THEN /\ IF mnEntry = "daily"
                      THEN mnPc' = "aborted" /\ UNCHANGED <<mnExit, mnCause>>
                      ELSE Exit(1, "game_error")
                   /\ UNCHANGED <<results, mnIdx>>
              ELSE /\ results' = (game :> result) @@ results
                   /\ mnIdx' = mnIdx + 1
                   /\ UNCHANGED <<mnPc, mnExit, mnCause>>
    /\ UNCHANGED <<mnEntry, mnSession, enabled_games>>

\* the loop is over: run_daily_checkins returns, main() prints the summary
\* and the process ends with status 0
MainFinish ==
    /\ mnPc = "games"
    /\ mnIdx > Len(enabled_games)
    /\ IF mnEntry = "daily"
       THEN mnPc' = "returned" /\ UNCHANGED <<mnExit, mnCause>>
       ELSE Exit(0, "completed")
    /\ UNCHANGED <<mnEntry, mnSession, enabled_games, mnIdx, results, mnRaised>>

\* an interrupt that ends the process with status 1
InterruptExitsOne ==
    /\ mnEntry \in {"main", "legacy"}
    /\ mnPc \in {"login", "session", "enabled", "games"}
    /\ Exit(1, "interrupt")
    /\ UNCHANGED <<mnEntry, mnSession, enabled_games, mnIdx, results, mnRaised>>

\* except KeyboardInterrupt: sys.exit(0)
Interrupt ==
    /\ mnEntry \in {"main", "legacy"}
    /\ mnPc \in {"login", "session", "enabled", "games"}
    /\ Exit(0, "interrupt")
    /\ UNCHANGED <<mnEntry, mnSession, enabled_games, mnIdx, results, mnRaised>>

(***************************************************************************)
(* The command line, as the specification describes it                     *)
(***************************************************************************)
\* the command words, and a word that is none of them
CommandWords == {"checkin", "redeem", "auth", "help"}

Words == CommandWords \cup {"bogus"}

MaxArgs == 3

ArgLists == UNION { [1..n -> Words] : n \in 0..MaxArgs }

\* a check that only refuses unknown words
CliRejectsUnknownOnly(args) ==
    \E i \in 1..Len(args) : args[i] \notin CommandWords

\* an invocation is refused when it has an unknown word, or has auth and
\* any other word next to it
CliRejects(args) ==
    \/ \E i \in 1..Len(args) : args[i] \notin CommandWords
    \/ /\ \E i \in 1..Len(args) : args[i] = "auth"
       /\ Len(args) > 1

\* the step a command word starts
StepOf(word) == IF word = "auth" THEN "login" ELSE word

CliIdle ==
    /\ cliArgs = <<>>
    /\ cliPc = "idle"
    /\ cliIdx = 1
    /\ cliStarted = <<>>
    /\ cliExit = 0

CliInvoke ==
    /\ cliPc = "idle"
    /\ cliArgs' \in ArgLists
    /\ cliPc' = "parsed"
    /\ UNCHANGED <<cliIdx, cliStarted, cliExit>>

\* the command words are checked before anything is started
CliValidate ==
    /\ cliPc = "parsed"
    /\ IF CliRejects(cliArgs)
       THEN cliPc' = "exited" /\ cliExit' = 1
       ELSE cliPc' = "run" /\ UNCHANGED cliExit
    /\ UNCHANGED <<cliArgs, cliIdx, cliStarted>>

\* the next command word runs; help only prints the usage
CliRun ==
    /\ cliPc = "run"
    /\ cliIdx <= Len(cliArgs)
    /\ cliStarted' = IF cliArgs[cliIdx] = "help" THEN cliStarted
                     ELSE Append(cliStarted, StepOf(cliArgs[cliIdx]))
    /\ cliIdx' = cliIdx + 1
    /\ UNCHANGED <<cliArgs, cliPc, cliExit>>

CliDone ==
    /\ cliPc = "run"
    /\ cliIdx > Len(cliArgs)
    /\ cliPc' = "exited"
    /\ cliExit' = 0
    /\ UNCHANGED <<cliArgs, cliIdx, cliStarted>>

(***************************************************************************)
(* checkin/config.py: get_enabled_games                                    *)
(***************************************************************************)
\* names as they can stand between the commas of HOYO_ENABLED_GAMES
NameTexts ==
    { <<"g","i">>, <<" ","G","I">>, <<"H","s","r"," ">>, <<"z","z","z">>,
      <<"g","i","x">>, <<" ">>, <<>> }

MaxNames == 3

NameLists == UNION { [1..n -> NameTexts] : n \in 1..MaxNames }

\* ",".join(names): the value of the variable that lists these names
RECURSIVE JoinComma(_)
JoinComma(names) ==
    IF Len(names) = 1 THEN Head(names)
    ELSE Head(names) \o <<",">> \o JoinComma(Tail(names))

\* the environment: HOYO_ENABLED_GAMES unset, or set to a list of names
Environments ==
    { [set |-> FALSE, names |-> <<>>, text |-> <<>>] }
        \cup { [set |-> TRUE, names |-> ns, text |-> JoinComma(ns)] : ns \in NameLists }

\* str.split(",")
RECURSIVE Split(_)
Split(t) ==
    IF \A i \in 1..Len(t) : t[i] # ","
    THEN <<t>>
    ELSE LET i == CHOOSE k \in 1..Len(t) :
                      t[k] = "," /\ \A j \in 1..(k - 1) : t[j] # ","
         IN <<SubSeq(t, 1, i - 1)>> \o Split(SubSeq(t, i + 1, Len(t)))

\* Game(value): the member with that value, NoValue for the ValueError
Game(value) ==
    CASE value = <<"g","i">> -> "gi"
      [] value = <<"h","s","r">> -> "hsr"
      [] value = <<"z","z","z">> -> "zzz"
      [] OTHER -> NoValue

\* list(Game)
AllGames == <<"gi", "hsr", "zzz">>

\* os.getenv("HOYO_ENABLED_GAMES", "gi,hsr,zzz")
getenv(env) ==
    IF env.set THEN env.text
    ELSE <<"g","i",",","h","s","r",",","z","z","z">>

\* get_enabled_games without the call of lower()
get_enabled_games_nolower(env) ==
    LET env_games == Split(getenv(env))
        members == [i \in 1..Len(env_games) |-> Game(Strip(env_games[i]))]
        enabled == SelectSeq(members, LAMBDA g : g # NoValue)
    IN IF enabled = <<>> THEN AllGames ELSE enabled

get_enabled_games(env) ==
    LET env_games == Split(getenv(env))
        members == [i \in 1..Len(env_games) |-> Game(Lower(Strip(env_games[i])))]
        enabled == SelectSeq(members, LAMBDA g : g # NoValue)
    IN IF enabled = <<>> THEN AllGames ELSE enabled

EnabledIdle ==
    /\ egEnv = [set |-> FALSE, names |-> <<>>, text |-> <<>>]
    /\ egOut = <<>>
    /\ egDone = FALSE

\* get_enabled_games is called
CallGetEnabledGames ==
    /\ ~egDone
    /\ egOut' = get_enabled_games(egEnv)
    /\ egDone' = TRUE
    /\ UNCHANGED egEnv

\* the caller has taken the list; the next call reads the same environment
EnabledReturn ==
    /\ egDone
    /\ egOut' = <<>>
    /\ egDone' = FALSE
    /\ UNCHANGED egEnv

(***************************************************************************)
(* auth/auth.py: the login check and the interactive login                 *)
(***************************************************************************)
\* what the browser, the site and the user do during one login check:
\* whether the privacy page shows the settings text, whether credentials
\* are set, how far the automated login gets, how the wait for the browser
\* to be closed ends, what context.cookies() gives, what save_session says
LoginEnvs ==
    [headless : {"logged_in", "not_logged_in"},
     creds : BOOLEAN,
     auto : {"ok", "load", "dialog", "username", "password", "submit", "hidden",
             "settle"},
     manual : {"closed", "timeout"},
     cookies : {"raise", "empty", "anonymous", "login"},
     save : BOOLEAN]

\* the browser calls of the two functions that no handler expects to fail;
\* at most one of them raises
LoginFaultPoints ==
    {"none", "launch", "new_context", "load_session", "add_cookies", "new_page",
     "close", "close_end", "login_launch", "login_new_context", "login_new_page",
     "login_goto"}

\* the steps of the automated login, in the order of the code
AutoSteps ==
    <<"load", "dialog", "username", "password", "submit", "hidden", "settle">>

\* an automated login that goes through all its steps whatever fails
AutoTraceGoesOn(auto) == AutoSteps

\* the steps the automated login gets through before env.auto stops it
AutoTrace(auto) ==
    LET n == IF auto = "ok" THEN Len(AutoSteps)
             ELSE CHOOSE i \in 1..Len(AutoSteps) : AutoSteps[i] = auto
    IN SubSeq(AutoSteps, 1, n)

\* wait_for_login_and_close: the interactive browser, the automated login
\* with its fallback to the manual wait, the capture of the cookies and
\* the save, browser.close() in the finally clause
wait_for_login_and_close(env, at) ==
    LET out(ret, tr, open, waited, saved) ==
            [ret |-> ret, trace |-> tr, open |-> open, waited |-> waited,
             saved |-> saved]
        login == IF env.creds
                 THEN IF env.auto = "ok" THEN AutoTrace(env.auto)
                      ELSE AutoTrace(env.auto) \o <<"manual_wait">>
                 ELSE <<"manual_wait">>
        waited == (~env.creds) \/ env.auto # "ok"
        tr == <<"login_launch", "login_goto">> \o login \o <<"cookies">>
    IN sync_playwright(
       IF at = "login_launch" THEN out("raised", <<"login_launch">>, FALSE, FALSE, FALSE)
       ELSE IF at \in {"login_new_context", "login_new_page"}
       THEN out("raised", <<"login_launch">>, TRUE, FALSE, FALSE)
       ELSE IF at = "login_goto"
       THEN out("False", <<"login_launch", "login_goto", "login_close">>, FALSE, FALSE, FALSE)
       ELSE IF env.cookies \in {"raise", "empty"}
       THEN out("False", tr \o <<"login_close">>, FALSE, waited, FALSE)
       ELSE IF env.save
       THEN out("True", tr \o <<"save", "login_close">>, FALSE, waited, TRUE)
       ELSE out("False", tr \o <<"save", "login_close">>, FALSE, waited, FALSE))

\* check_login_status: the headless check with the saved session, then the
\* interactive login when the check did not pass
check_login_status(session_data, env, at) ==
    LET out(ret, tr, open) ==
            [ret |-> ret, trace |-> tr, open |-> open, waited |-> FALSE,
             saved |-> FALSE, verified |-> FALSE]
        \* browser.close() at the end of the headless part
        close_end(tr) ==
            IF at = "close_end" THEN out("raised", tr \o <<"close">>, TRUE)
            ELSE out("not_logged_in", tr \o <<"close">>, FALSE)
        headless ==
            sync_playwright(
            IF at = "launch" THEN out("raised", <<"launch">>, FALSE)
            ELSE IF at \in {"new_context", "load_session"}
            THEN out("raised", <<"launch">>, TRUE)
            ELSE IF session_data # "cookies" THEN close_end(<<"launch">>)
            ELSE IF at \in {"add_cookies", "new_page"} THEN close_end(<<"launch">>)
            ELSE IF env.headless = "not_logged_in"
            THEN close_end(<<"launch", "is_logged_in">>)
            ELSE IF at = "close"
            THEN close_end(<<"launch", "is_logged_in", "close">>)
            ELSE [out("True", <<"launch", "is_logged_in", "close">>, FALSE)
                     EXCEPT !.verified = TRUE])
    IN IF headless.ret # "not_logged_in" THEN headless
       \* the call of wait_for_login_and_close, after the with block
       ELSE LET w == wait_for_login_and_close(env, at)
            IN [verified |-> FALSE] @@ [w EXCEPT !.trace = headless.trace \o @]

NoLogin == [ret |-> NoValue]

LoginIdle == liCall = NoLogin

\* check_login_status runs
CheckLogin ==
    /\ liCall = NoLogin
    /\ \E sd \in CheckinSessions, env \in LoginEnvs, at \in LoginFaultPoints :
        liCall' = [session |-> sd, env |-> env, fault |-> at]
                    @@ check_login_status(sd, env, at)

\* the caller has taken the answer
LoginReturn ==
    /\ liCall # NoLogin
    /\ liCall' = NoLogin

(***************************************************************************)
(* redeem/redeem.py and redeem/search.py: the two browser routines         *)
(***************************************************************************)
\* the three UI steps, by their descriptions, in the order of the lists of
\* redeem_zzz, redeem_hsr and redeem_gi
Steps == <<"region selector toggle", "America region", "redeem button">>

\* range(5): the attempts of the polling loop
PollAttempts == 5

\* what the redemption page does: the step whose click or wait raises, the
\* number of attempts that find the result element attached and then count
\* none, what the attempt after those does, and the text of the element
RedeemEnvs ==
    [click : {"ok"} \cup {Steps[i] : i \in 1..Len(Steps)},
     gone : 0..PollAttempts,
     poll : {"found", "timeout", "no_text"},
     text : {"Redeemed successfully", "Invalid redemption code"}]

RedeemFaultPoints ==
    {"none", "launch", "new_context", "add_cookies", "new_page", "goto",
     "load_wait", "close"}

\* a loop that goes on to the next step after a step has failed
ClickTraceGoesOn(click) == Steps

\* the steps clicked: all of them, or those up to the one that raises
ClickTrace(click) ==
    LET n == IF click = "ok" THEN Len(Steps)
             ELSE CHOOSE i \in 1..Len(Steps) : Steps[i] = click
    IN SubSeq(Steps, 1, n)

\* f"Failed to click {description}"
FailedToClick(description) ==
    CASE description = "region selector toggle" ->
             "Failed to click region selector toggle"
      [] description = "America region" -> "Failed to click America region"
      [] description = "redeem button" -> "Failed to click redeem button"

\* the polling loop up to attempt k: an attempt that counts no element is
\* followed by a wait of 500 ms unless it is the last
RECURSIVE PollTrace(_)
PollTrace(k) ==
    IF k = 0 THEN <<>>
    ELSE IF k = 1 THEN <<"poll">>
    ELSE PollTrace(k - 1) \o <<"wait_500", "poll">>

\* the try block of redeem with its handler
redeem_try(session_data, env, at) ==
    LET out(success, message, tr, polls) ==
            [ret |-> "result", success |-> success, message |-> message,
             trace |-> tr, polls |-> polls, open |-> TRUE]
        tr0 == <<"launch", "new_context">>
        tr1 == IF session_data # "none" THEN Append(tr0, "add_cookies") ELSE tr0
        tr2 == tr1 \o <<"new_page", "goto", "load_wait">>
        tr3 == tr2 \o ClickTrace(env.click)
        k == IF env.gone < PollAttempts THEN env.gone + 1 ELSE PollAttempts
    IN IF at = "add_cookies" /\ session_data # "none"
       THEN out(FALSE, "Redemption failed", tr1, 0)
       ELSE IF at = "new_page"
       THEN out(FALSE, "Redemption failed", Append(tr1, "new_page"), 0)
       ELSE IF at = "goto"
       THEN out(FALSE, "Redemption failed", tr1 \o <<"new_page", "goto">>, 0)
       ELSE IF at = "load_wait" THEN out(FALSE, "Redemption failed", tr2, 0)
       ELSE IF env.click # "ok"
       THEN out(FALSE, FailedToClick(env.click), tr3, 0)
       ELSE IF env.gone >= PollAttempts
       THEN out(FALSE, "Redemption status unclear", tr3 \o PollTrace(k), k)
       ELSE IF env.poll = "timeout"
       THEN out(FALSE, "Redemption failed", tr3 \o PollTrace(k), k)
       ELSE IF env.poll = "no_text"
       THEN out(TRUE, "Redemption failed", tr3 \o PollTrace(k), k)
       ELSE out(TRUE, env.text, tr3 \o PollTrace(k), k)

\* redeem: launch and new_context before the try block, browser.close() in
\* the finally clause
redeem(session_data, env, at) ==
    LET raised(tr, open) ==
            [ret |-> "raised", success |-> FALSE, message |-> "", trace |-> tr,
             polls |-> 0, open |-> open]
    IN sync_playwright(
       IF at = "launch" THEN raised(<<"launch">>, FALSE)
       ELSE IF at = "new_context" THEN raised(<<"launch", "new_context">>, TRUE)
       ELSE LET t == redeem_try(session_data, env, at)
            IN IF at = "close"
               THEN [t EXCEPT !.ret = "raised", !.trace = Append(@, "close")]
               ELSE [t EXCEPT !.trace = Append(@, "close"), !.open = FALSE])

SearchFaultPoints ==
    {"none", "launch", "new_context", "add_cookies", "new_page", "goto",
     "load_wait", "count", "close"}

\* search, as far as the browser goes: launch and new_context before the
\* try block, the page with its cards inside it, every error of the block
\* logged, browser.close() in the finally clause
search(session_data, cards, at) ==
    LET out(ret, tr, open) ==
            [ret |-> ret, success |-> FALSE, message |-> "", trace |-> tr,
             polls |-> 0, open |-> open]
        tr0 == <<"launch", "new_context">>
        body == IF at \in {"add_cookies", "new_page", "goto", "load_wait", "count"}
                THEN Append(tr0, at)
                ELSE tr0 \o <<"goto", "load_wait", "count">>
                         \o (IF cards = "some" THEN <<"cards">> ELSE <<>>)
    IN sync_playwright(
       IF at = "launch" THEN out("raised", <<"launch">>, FALSE)
       ELSE IF at = "new_context" THEN out("raised", tr0, TRUE)
       ELSE IF at = "close" THEN out("raised", Append(body, "close"), TRUE)
       ELSE out("results", Append(body, "close"), FALSE))

NoRedeemCall == [routine |-> NoValue]

RedeemCallIdle == rdCall = NoRedeemCall

\* a redeem function runs for one code
RedeemCode ==
    /\ rdCall = NoRedeemCall
    /\ \E sd \in CheckinSessions, env \in RedeemEnvs, at \in RedeemFaultPoints :
        rdCall' = [routine |-> "redeem", session |-> sd, env |-> env, fault |-> at]
                    @@ redeem(sd, env, at)

\* the search runs
SearchArticles ==
    /\ rdCall = NoRedeemCall
    /\ \E sd \in CheckinSessions, cards \in {"zero", "some"}, at \in SearchFaultPoints :
        rdCall' = [routine |-> "search", session |-> sd, env |-> cards, fault |-> at]
                    @@ search(sd, cards, at)

\* main_redeem has taken the answer
RedeemCallReturn ==
    /\ rdCall # NoRedeemCall
    /\ rdCall' = NoRedeemCall

(***************************************************************************)
(* redeem/search.py: search_recent_codes                                   *)
(***************************************************************************)
\* dates are counted in days
MaxDay == 4

MaxDays == 2

MaxResults == 2

\* the tuples (date, game, codes) search puts in its result
ResultEntries ==
    [date : 1..MaxDay, game : {"Genshin Impact", ""},
     codes : { <<"CODE1">>, <<"CODE1", "CODE2">> }]

\* search_recent_codes is called: the result of search(session_data), the
\* date datetime.now().date() gives, and the number of days
FilterInputs ==
    [all_results : UNION { [1..n -> ResultEntries] : n \in 0..MaxResults },
     today : 1..MaxDay,
     days : 0..MaxDays]

\* a filter that leaves out the articles of the cutoff date itself
search_recent_codes_after(all_results, today, days) ==
    LET cutoff_date == today - days
    IN SelectSeq(all_results, LAMBDA r : r.date > cutoff_date)

\* search_recent_codes, after its call of search
search_recent_codes(all_results, today, days) ==
    LET cutoff_date == today - days
    IN SelectSeq(all_results, LAMBDA r : r.date >= cutoff_date)

FilterIdle ==
    /\ fcIn = [all_results |-> <<>>, today |-> 1, days |-> 0]
    /\ fcOut = <<>>
    /\ fcDone = FALSE

\* search_recent_codes filters the result of the search
FilterResults ==
    /\ fcDone = FALSE
    /\ fcOut' = search_recent_codes(fcIn.all_results, fcIn.today, fcIn.days)
    /\ fcDone' = TRUE
    /\ UNCHANGED fcIn

\* main_redeem has taken the list
FilterReturn ==
    /\ fcDone
    /\ fcOut' = <<>>
    /\ fcDone' = FALSE
    /\ UNCHANGED fcIn

(***************************************************************************)
(* redeem/main.py: main_redeem and the ledger                              *)
(***************************************************************************)
\* GAME_MAPPINGS: the game name of an article to its ledger key
GAME_MAPPINGS ==
    [n \in {"Zenless Zone Zero", "Honkai Star Rail", "Genshin Impact"} |->
        IF n = "Zenless Zone Zero" THEN "ZZZ"
        ELSE IF n = "Honkai Star Rail" THEN "HSR" ELSE "GI"]

\* what search() puts in the game field: a known name, or "" when the header
\* matches none
ArticleGames == {"Zenless Zone Zero", "Genshin Impact", ""}

Codes == {"CODE1", "CODE2"}

\* the code lists of an article (search() keeps no article without codes)
ArticleCodes ==
    { <<c>> : c \in Codes } \cup { <<"CODE1", c>> : c \in Codes }

Articles == [game : ArticleGames, codes : ArticleCodes]

NoArticle == [game |-> "", codes |-> <<>>]

\* redemption_results is only printed at the end of the run: the model keeps
\* its length and its newest row
NoRow == [game |-> "", code |-> "", message |-> ""]

MaxArticles == 2
MaxRuns == 2

\* a ledger: (game_key, code) -> {message, timestamp}
EmptyLedger == [k \in {} |-> [message |-> "", timestamp |-> 0]]

NoLedgerFile == [kind |-> "absent", data |-> EmptyLedger]

\* what the redeem function of a game can do: report success with the text
\* of the result element, report failure, or raise
RedeemOutcomes ==
    { [kind |-> "success", message |-> "Redeemed successfully"],
      [kind |-> "failure", message |-> "Redemption status unclear"],
      [kind |-> "raise", message |-> "Error: browser"] }

\* load_redeemed_codes: {} when the file is missing, unreadable or no JSON
load_redeemed_codes(fault) ==
    IF ledgerFile.kind = "absent" THEN EmptyLedger
    ELSE IF fault = "read" \/ ledgerFile.kind # "json" THEN EmptyLedger
    ELSE ledgerFile.data

\* save_redeemed_codes: the file it leaves; an error is logged, not raised
save_redeemed_codes(ledger, fault) ==
    IF fault = "open" THEN ledgerFile
    ELSE IF fault = "write" THEN [kind |-> "corrupt", data |-> EmptyLedger]
    ELSE [kind |-> "json", data |-> ledger]

\* a membership test that looks at the code and not at the game
is_code_redeemed_any_game(ledger, game_key, code) ==
    \E k \in DOMAIN ledger : k[2] = code

\* a loop that does not look into the ledger before it redeems
is_code_redeemed_untested(ledger, game_key, code) == FALSE

is_code_redeemed(ledger, game_key, code) == <<game_key, code>> \in DOMAIN ledger

mark_code_redeemed(ledger, game_key, code, message, now) ==
    [k \in DOMAIN ledger \cup {<<game_key, code>>} |->
        IF k = <<game_key, code>>
        THEN [message |-> message, timestamp |-> now]
        ELSE ledger[k]]

RedeemIdle ==
    /\ ledgerFile = NoLedgerFile
    /\ rrPc = "idle"
    /\ rrRun = 0
    /\ redeemed_codes = EmptyLedger
    /\ rrStart = NoLedgerFile
    /\ rrArticle = NoArticle
    /\ rrArtCount = 0
    /\ rrIdx = 1
    /\ rrInvoked = {}
    /\ rrRows = 0
    /\ rrLastRow = NoRow

\* main_redeem up to the loop: load the ledger, search; the run ends here
\* when the search raises or finds nothing
StartRun ==
    \E fault \in {"none", "read"}, found \in {"raise", "nothing", "results"} :
        /\ rrPc \in {"idle", "done"}
        /\ rrRun < MaxRuns
        /\ rrRun' = rrRun + 1
        /\ rrStart' = ledgerFile
        /\ redeemed_codes' = load_redeemed_codes(fault)
        /\ rrInvoked' = {}
        /\ rrRows' = 0
        /\ rrLastRow' = NoRow
        /\ rrArticle' = NoArticle
        /\ rrArtCount' = 0
        /\ rrIdx' = 1
        /\ rrPc' = IF found = "results" THEN "loop" ELSE "done"
        /\ UNCHANGED ledgerFile

\* a loop that takes the codes of every search result
InGameMappingsUntested(game_name) == TRUE

\* game_name in GAME_MAPPINGS
InGameMappings(game_name) == game_name \in DOMAIN GAME_MAPPINGS

\* the outer loop takes the next search result; one of an unknown game is
\* skipped whole
NextArticle ==
    \E a \in Articles :
        /\ rrPc = "loop"
        /\ rrIdx > Len(rrArticle.codes)
        /\ rrArtCount < MaxArticles
        /\ rrArtCount' = rrArtCount + 1
        /\ IF InGameMappings(a.game)
           THEN rrArticle' = a /\ rrIdx' = 1
           ELSE rrArticle' = NoArticle /\ rrIdx' = 1
        /\ UNCHANGED <<ledgerFile, rrPc, rrRun, redeemed_codes, rrStart,
                       rrInvoked, rrRows, rrLastRow>>

\* the body of the inner loop for one code
\* a loop without the except clause: the error of a redemption ends it
AfterRedeemNoCatch(out) == IF out.kind = "raise" THEN "aborted" ELSE "loop"

\* where main_redeem is after the redemption of a code: its except clause
\* turns an error into a message, and the loop goes on
AfterRedeem(out) == "loop"

ProcessCode ==
    \E out \in RedeemOutcomes :
        /\ rrPc = "loop"
        /\ rrIdx <= Len(rrArticle.codes)
        /\ LET game_key == GAME_MAPPINGS[rrArticle.game]
               code == rrArticle.codes[rrIdx]
               row(message) == [game |-> game_key, code |-> code, message |-> message]
           IN IF is_code_redeemed(redeemed_codes, game_key, code)
              THEN /\ rrLastRow' = row("Redeemed Before")
                   /\ UNCHANGED <<redeemed_codes, rrInvoked, rrPc>>
              ELSE /\ rrInvoked' = rrInvoked \cup {<<game_key, code>>}
                   /\ rrPc' = AfterRedeem(out)
                   /\ rrLastRow' = row(out.message)
                   /\ redeemed_codes' =
                        IF out.kind = "success"
                        THEN mark_code_redeemed(redeemed_codes, game_key, code,
                                                out.message, rrRun)
                        ELSE redeemed_codes
        /\ rrRows' = rrRows + 1
        /\ rrIdx' = rrIdx + 1
        /\ UNCHANGED <<ledgerFile, rrRun, rrStart, rrArticle, rrArtCount>>

\* the search results are used up: save the ledger
SaveLedger ==
    \E fault \in {"none", "open", "write"} :
        /\ rrPc = "loop"
        /\ rrIdx > Len(rrArticle.codes)
        /\ rrArtCount >= 1
        /\ ledgerFile' = save_redeemed_codes(redeemed_codes, fault)
        /\ rrPc' = "done"
        /\ UNCHANGED <<rrRun, redeemed_codes, rrStart, rrArticle, rrArtCount,
                       rrIdx, rrInvoked, rrRows, rrLastRow>>

(***************************************************************************)
(* The specifications, one for each part of the program                    *)
(***************************************************************************)
InitSearch == SearchInit /\ ClassifyIdle /\ SessionIdle /\ RedeemIdle /\ CheckinIdle /\ MainIdle /\ CliIdle /\ LoginIdle /\ RedeemCallIdle /\ EnabledIdle /\ FilterIdle

ExtractCodes ==
    /\ ~srDone
    /\ srCodes' = filtered_codes(srText)
    /\ srDone' = TRUE
    /\ UNCHANGED srText

NextCard ==
    /\ srDone
    /\ srText' \in ArticleTexts
    /\ srCodes' = <<>>
    /\ srDone' = FALSE

SearchNext ==
    \/ ExtractCodes /\ UNCHANGED <<classifyVars, sessionVars, redeemVars, ciCall, mainVars, cliVars, liCall, rdCall, enabledVars, filterVars>>
    \/ NextCard /\ UNCHANGED <<classifyVars, sessionVars, redeemVars, ciCall, mainVars, cliVars, liCall, rdCall, enabledVars, filterVars>>

SpecSearch == InitSearch /\ [][SearchNext]_vars

InitRedeem == RedeemIdle /\ ClassifyIdle /\ SessionIdle /\ SearchIdle /\ CheckinIdle /\ MainIdle /\ CliIdle /\ LoginIdle /\ RedeemCallIdle /\ EnabledIdle /\ FilterIdle

RedeemNext ==
    \/ StartRun /\ UNCHANGED <<classifyVars, sessionVars, searchVars, ciCall, mainVars, cliVars, liCall, rdCall, enabledVars, filterVars>>
    \/ NextArticle /\ UNCHANGED <<classifyVars, sessionVars, searchVars, ciCall, mainVars, cliVars, liCall, rdCall, enabledVars, filterVars>>
    \/ ProcessCode /\ UNCHANGED <<classifyVars, sessionVars, searchVars, ciCall, mainVars, cliVars, liCall, rdCall, enabledVars, filterVars>>
    \/ SaveLedger /\ UNCHANGED <<classifyVars, sessionVars, searchVars, ciCall, mainVars, cliVars, liCall, rdCall, enabledVars, filterVars>>

SpecRedeem == InitRedeem /\ [][RedeemNext]_vars

InitCheckin == CheckinIdle /\ ClassifyIdle /\ SessionIdle /\ SearchIdle /\ RedeemIdle /\ MainIdle /\ CliIdle /\ LoginIdle /\ RedeemCallIdle /\ EnabledIdle /\ FilterIdle

CheckinNext ==
    \/ PerformCheckin /\ UNCHANGED <<classifyVars, sessionVars, searchVars, redeemVars, mainVars, cliVars, liCall, rdCall, enabledVars, filterVars>>
    \/ PerformHsrCheckin /\ UNCHANGED <<classifyVars, sessionVars, searchVars, redeemVars, mainVars, cliVars, liCall, rdCall, enabledVars, filterVars>>
    \/ CheckinReturn /\ UNCHANGED <<classifyVars, sessionVars, searchVars, redeemVars, mainVars, cliVars, liCall, rdCall, enabledVars, filterVars>>

SpecCheckin == InitCheckin /\ [][CheckinNext]_vars

InitMain == MainIdle /\ ClassifyIdle /\ SessionIdle /\ SearchIdle /\ RedeemIdle /\ CheckinIdle /\ CliIdle /\ LoginIdle /\ RedeemCallIdle /\ EnabledIdle /\ FilterIdle

MainNext ==
    \/ MainStart /\ UNCHANGED <<classifyVars, sessionVars, searchVars, redeemVars, ciCall, cliVars, liCall, rdCall, enabledVars, filterVars>>
    \/ CheckLoginStatus /\ UNCHANGED <<classifyVars, sessionVars, searchVars, redeemVars, ciCall, cliVars, liCall, rdCall, enabledVars, filterVars>>
    \/ LoadSessionData /\ UNCHANGED <<classifyVars, sessionVars, searchVars, redeemVars, ciCall, cliVars, liCall, rdCall, enabledVars, filterVars>>
    \/ GetEnabledGames /\ UNCHANGED <<classifyVars, sessionVars, searchVars, redeemVars, ciCall, cliVars, liCall, rdCall, enabledVars, filterVars>>
    \/ GameCheckin /\ UNCHANGED <<classifyVars, sessionVars, searchVars, redeemVars, ciCall, cliVars, liCall, rdCall, enabledVars, filterVars>>
    \/ MainFinish /\ UNCHANGED <<classifyVars, sessionVars, searchVars, redeemVars, ciCall, cliVars, liCall, rdCall, enabledVars, filterVars>>
    \/ Interrupt /\ UNCHANGED <<classifyVars, sessionVars, searchVars, redeemVars, ciCall, cliVars, liCall, rdCall, enabledVars, filterVars>>

SpecMain == InitMain /\ [][MainNext]_vars

InitCli ==
    /\ CliIdle /\ ClassifyIdle /\ SessionIdle /\ SearchIdle /\ RedeemIdle
    /\ CheckinIdle /\ MainIdle /\ LoginIdle /\ RedeemCallIdle /\ EnabledIdle /\ FilterIdle

CliNext ==
    \/ CliInvoke /\ UNCHANGED <<classifyVars, sessionVars, searchVars, redeemVars, ciCall, mainVars, liCall, rdCall, enabledVars, filterVars>>
    \/ CliValidate /\ UNCHANGED <<classifyVars, sessionVars, searchVars, redeemVars, ciCall, mainVars, liCall, rdCall, enabledVars, filterVars>>
    \/ CliRun /\ UNCHANGED <<classifyVars, sessionVars, searchVars, redeemVars, ciCall, mainVars, liCall, rdCall, enabledVars, filterVars>>
    \/ CliDone /\ UNCHANGED <<classifyVars, sessionVars, searchVars, redeemVars, ciCall, mainVars, liCall, rdCall, enabledVars, filterVars>>

SpecCli == InitCli /\ [][CliNext]_vars

\* the routines that open a browser, called one after another as main and
\* main_redeem call them: a routine starts when no other is running
NoRoutineRuns == CheckinIdle /\ LoginIdle /\ RedeemCallIdle

InitBrowser ==
    /\ NoRoutineRuns /\ CliIdle /\ ClassifyIdle /\ SessionIdle /\ SearchIdle
    /\ RedeemIdle /\ MainIdle /\ EnabledIdle /\ FilterIdle

BrowserNext ==
    \/ NoRoutineRuns /\ CheckLogin /\ UNCHANGED <<classifyVars, sessionVars, searchVars, redeemVars, ciCall, mainVars, cliVars, rdCall, enabledVars, filterVars>>
    \/ LoginReturn /\ UNCHANGED <<classifyVars, sessionVars, searchVars, redeemVars, ciCall, mainVars, cliVars, rdCall, enabledVars, filterVars>>
    \/ NoRoutineRuns /\ PerformCheckin /\ UNCHANGED <<classifyVars, sessionVars, searchVars, redeemVars, mainVars, cliVars, liCall, rdCall, enabledVars, filterVars>>
    \/ NoRoutineRuns /\ PerformHsrCheckin /\ UNCHANGED <<classifyVars, sessionVars, searchVars, redeemVars, mainVars, cliVars, liCall, rdCall, enabledVars, filterVars>>
    \/ CheckinReturn /\ UNCHANGED <<classifyVars, sessionVars, searchVars, redeemVars, mainVars, cliVars, liCall, rdCall, enabledVars, filterVars>>
    \/ NoRoutineRuns /\ SearchArticles /\ UNCHANGED <<classifyVars, sessionVars, searchVars, redeemVars, ciCall, mainVars, cliVars, liCall, enabledVars, filterVars>>
    \/ NoRoutineRuns /\ RedeemCode /\ UNCHANGED <<classifyVars, sessionVars, searchVars, redeemVars, ciCall, mainVars, cliVars, liCall, enabledVars, filterVars>>
    \/ RedeemCallReturn /\ UNCHANGED <<classifyVars, sessionVars, searchVars, redeemVars, ciCall, mainVars, cliVars, liCall, enabledVars, filterVars>>

SpecBrowser == InitBrowser /\ [][BrowserNext]_vars

InitFilter ==
    /\ fcIn \in FilterInputs /\ fcOut = <<>> /\ fcDone = FALSE
    /\ NoRoutineRuns /\ CliIdle /\ ClassifyIdle /\ SessionIdle /\ SearchIdle
    /\ RedeemIdle /\ MainIdle /\ EnabledIdle

FilterNext ==
    \/ FilterResults /\ UNCHANGED <<classifyVars, sessionVars, searchVars, redeemVars, ciCall, mainVars, cliVars, liCall, rdCall, enabledVars>>
    \/ FilterReturn /\ UNCHANGED <<classifyVars, sessionVars, searchVars, redeemVars, ciCall, mainVars, cliVars, liCall, rdCall, enabledVars>>

SpecFilter == InitFilter /\ [][FilterNext]_vars

InitEnabled ==
    /\ egEnv \in Environments /\ egOut = <<>> /\ egDone = FALSE
    /\ NoRoutineRuns /\ CliIdle /\ ClassifyIdle /\ SessionIdle /\ SearchIdle
    /\ RedeemIdle /\ MainIdle /\ FilterIdle

EnabledNext ==
    \/ CallGetEnabledGames /\ UNCHANGED <<classifyVars, sessionVars, searchVars, redeemVars, ciCall, mainVars, cliVars, liCall, rdCall, filterVars>>
    \/ EnabledReturn /\ UNCHANGED <<classifyVars, sessionVars, searchVars, redeemVars, ciCall, mainVars, cliVars, liCall, rdCall, filterVars>>

SpecEnabled == InitEnabled /\ [][EnabledNext]_vars

InitRedeemCall ==
    /\ RedeemCallIdle /\ LoginIdle /\ CliIdle /\ ClassifyIdle /\ SessionIdle
    /\ SearchIdle /\ RedeemIdle /\ CheckinIdle /\ MainIdle /\ EnabledIdle /\ FilterIdle

RedeemCallNext ==
    \/ RedeemCode /\ UNCHANGED <<classifyVars, sessionVars, searchVars, redeemVars, ciCall, mainVars, cliVars, liCall, enabledVars, filterVars>>
    \/ SearchArticles /\ UNCHANGED <<classifyVars, sessionVars, searchVars, redeemVars, ciCall, mainVars, cliVars, liCall, enabledVars, filterVars>>
    \/ RedeemCallReturn /\ UNCHANGED <<classifyVars, sessionVars, searchVars, redeemVars, ciCall, mainVars, cliVars, liCall, enabledVars, filterVars>>

SpecRedeemCall == InitRedeemCall /\ [][RedeemCallNext]_vars

InitLogin ==
    /\ LoginIdle /\ CliIdle /\ ClassifyIdle /\ SessionIdle /\ SearchIdle /\ RedeemIdle
    /\ CheckinIdle /\ MainIdle /\ RedeemCallIdle /\ EnabledIdle /\ FilterIdle

LoginNext ==
    \/ CheckLogin /\ UNCHANGED <<classifyVars, sessionVars, searchVars, redeemVars, ciCall, mainVars, cliVars, rdCall, enabledVars, filterVars>>
    \/ LoginReturn /\ UNCHANGED <<classifyVars, sessionVars, searchVars, redeemVars, ciCall, mainVars, cliVars, rdCall, enabledVars, filterVars>>

SpecLogin == InitLogin /\ [][LoginNext]_vars

InitSession == SessionInit /\ ClassifyIdle /\ SearchIdle /\ RedeemIdle /\ CheckinIdle /\ MainIdle /\ CliIdle /\ LoginIdle /\ RedeemCallIdle /\ EnabledIdle /\ FilterIdle

SessionNext ==
    \/ SaveSession /\ UNCHANGED ssReg /\ UNCHANGED <<classifyVars, searchVars, redeemVars, ciCall, mainVars, cliVars, liCall, rdCall, enabledVars, filterVars>>
    \/ LoadSession /\ UNCHANGED ssReg /\ UNCHANGED <<classifyVars, searchVars, redeemVars, ciCall, mainVars, cliVars, liCall, rdCall, enabledVars, filterVars>>

SpecSession == InitSession /\ [][SessionNext]_vars

(***************************************************************************)
InitRegister == SessionInit /\ ClassifyIdle /\ SearchIdle /\ RedeemIdle /\ CheckinIdle /\ MainIdle /\ CliIdle /\ LoginIdle /\ RedeemCallIdle /\ EnabledIdle /\ FilterIdle

RegisterNext ==
    \/ RegisterSave /\ UNCHANGED <<classifyVars, searchVars, redeemVars, ciCall, mainVars, cliVars, liCall, rdCall, enabledVars, filterVars>>
    \/ RegisterLoad /\ UNCHANGED <<classifyVars, searchVars, redeemVars, ciCall, mainVars, cliVars, liCall, rdCall, enabledVars, filterVars>>
    \/ RegisterClear /\ UNCHANGED <<classifyVars, searchVars, redeemVars, ciCall, mainVars, cliVars, liCall, rdCall, enabledVars, filterVars>>

SpecRegister == InitRegister /\ [][RegisterNext]_vars

InitClassify == ClassifyInit /\ SessionIdle /\ SearchIdle /\ RedeemIdle /\ CheckinIdle /\ MainIdle /\ CliIdle /\ LoginIdle /\ RedeemCallIdle /\ EnabledIdle /\ FilterIdle

ClassifyNext ==
    \/ Classify /\ UNCHANGED <<sessionVars, searchVars, redeemVars, ciCall, mainVars, cliVars, liCall, rdCall, enabledVars, filterVars>>
    \/ ClassifyRaise /\ UNCHANGED <<sessionVars, searchVars, redeemVars, ciCall, mainVars, cliVars, liCall, rdCall, enabledVars, filterVars>>

SpecClassify == InitClassify /\ [][ClassifyNext]_vars

(***************************************************************************)
(* C1                                                                      *)
(***************************************************************************)
\* the entries of the ledger file a run started with
StartEntries == IF rrStart.kind = "json" THEN DOMAIN rrStart.data ELSE {}

\* C1 as stated: a (game, code) that is in the ledger file when a run starts
\* is never handed to the redeem function during that run; its row says
\* "Redeemed Before".
C1_AsStated ==
    /\ \A k \in StartEntries : k \notin rrInvoked
    /\ <<rrLastRow.game, rrLastRow.code>> \in StartEntries
          => rrLastRow.message = "Redeemed Before"

(***************************************************************************)
(* C2, C7                                                                  *)
(***************************************************************************)
SavedThenLoaded == ssLast.op = "load" /\ ssSaved # NoSession

LoadedEqualsSaved ==
    /\ ~ssLast.raised
    /\ ~ssLast.isNone
    /\ ssLast.data.cookies = ssSaved.cookies
    /\ ssLast.data.local_storage = ssSaved.local_storage

\* C2 as stated: save_session of cookies that each carry name, value and
\* domain returns True, and the load_session that immediately follows returns
\* the saved cookies and the saved local_storage mapping.
C2_AsStated ==
    /\ (ssLast.op = "save" /\ ssLast.valid) => ssLast.ret
    /\ SavedThenLoaded => LoadedEqualsSaved

\* C2 amended: save_session of cookies that each carry name, value and domain
\* returns True unless the call meets an I/O error or the key file holds bytes
\* that are no usable key; and after a save_session that returned True, an
\* immediately following load_session that meets no I/O error returns the
\* saved cookies and the saved local_storage mapping (the empty mapping when
\* none was given), with and without encryption.
C2_RoundTrip ==
    /\ (ssLast.op = "save" /\ ssLast.valid /\ ssLast.clean
          /\ (crypto => ssLast.keyOk)) => ssLast.ret
    /\ (SavedThenLoaded /\ ssLast.clean) => LoadedEqualsSaved

\* an encrypted session with a four-field cookie and a local_storage entry
\* has been saved and loaded back
C2_Witness ==
    /\ crypto
    /\ SavedThenLoaded
    /\ ssLast.clean
    /\ ssSaved.cookies = <<Cookie2>>
    /\ ssSaved.local_storage = [theme |-> "dark"]
    /\ LoadedEqualsSaved

\* C7 as stated: load_session never raises to its caller; whatever fails, it
\* returns None.
C7_AsStated == ssLast.op = "load" => ~ssLast.raised

(***************************************************************************)
(* C3, C4                                                                  *)
(***************************************************************************)
\* the routine that returned last searched the loaded claim page for reward
\* elements, and no browser call failed
SearchedPage ==
    /\ ciCall # NoCheckin
    /\ ciCall.fault = NoFault
    /\ \E i \in 1..Len(ciCall.trace) : ciCall.trace[i] = "find"

\* C3 as stated: a routine that loaded the claim page and found zero reward
\* elements on it returns "already checked in", never "failed".
C3_AsStated ==
    (SearchedPage /\ ciCall.page.items = "zero")
        => ciCall.ret = "already_checked_in"

\* C4 as stated: once the click step of a check-in routine (direct or
\* script-injected) has succeeded, the routine returns SUCCESS, whatever
\* the success text and the success dialog do.
C4_AsStated ==
    (ciCall # NoCheckin /\ ciCall.routine = "base" /\ ciCall.click_ok)
        => ciCall.ret = "success"

(***************************************************************************)
(* C5                                                                      *)
(***************************************************************************)
\* The tokens of a text: the runs of five or more alphanumeric characters
\* that are whole words (no word character before or after) and have no dot
\* before or after, as <<first, last>> positions.
CodeTokens(t) ==
    { <<i, j>> \in (1..Len(t)) \X (1..Len(t)) :
        /\ j >= i + 4
        /\ \A k \in i..j : IsAlnum(t[k])
        /\ i = 1 \/ (~IsWordChar(t[i-1]) /\ t[i-1] # ".")
        /\ j = Len(t) \/ (~IsWordChar(t[j+1]) /\ t[j+1] # ".") }

WantedTokens(t) ==
    { p \in CodeTokens(t) :
        LET w == SubSeq(t, p[1], p[2]) IN
        /\ \E k \in 1..Len(w) : w[k] \notin Digits
        /\ (\E k \in 1..Len(w) : w[k] \notin Letters) \/ Len(w) >= 8 }

\* C5: the codes kept from an article text are exactly its alphanumeric
\* tokens of five or more characters, not adjacent to a dot, that are neither
\* all digits nor all letters with fewer than eight characters, in order of
\* appearance; "Use code ABCDE123 before..." yields ABCDE123 alone.
C5_Extraction ==
    srDone =>
        /\ Len(srCodes) = Cardinality(WantedTokens(srText))
        /\ \E starts \in [1..Len(srCodes) -> 1..Len(srText)] :
              /\ \A n \in 1..Len(srCodes) :
                    <<starts[n], starts[n] + Len(srCodes[n]) - 1>> \in WantedTokens(srText)
                    /\ srCodes[n] = SubSeq(srText, starts[n], starts[n] + Len(srCodes[n]) - 1)
              /\ \A n \in 1..(Len(srCodes) - 1) : starts[n] < starts[n+1]
        /\ \A n \in 1..Len(srCodes) :
              ~IsDigitStr(srCodes[n]) /\ ~(IsAlphaStr(srCodes[n]) /\ Len(srCodes[n]) < 8)
        /\ srText = ExampleText => srCodes = << <<"A","B","C","D","E","1","2","3">> >>

\* the example text has been read and ABCDE123 kept
C5_Witness ==
    /\ srDone
    /\ srText = ExampleText
    /\ srCodes = << <<"A","B","C","D","E","1","2","3">> >>

(***************************************************************************)
(* C6                                                                      *)
(***************************************************************************)
\* the invocation has auth among its command words and another command
AuthCombined ==
    /\ \E i \in 1..Len(cliArgs) : cliArgs[i] = "auth"
    /\ \E i \in 1..Len(cliArgs) : cliArgs[i] # "auth"

\* C6: an invocation that has auth together with another command starts no
\* login, check-in or redemption step, and when it exits its status is not 0.
C6_AuthAlone ==
    AuthCombined =>
        /\ cliStarted = <<>>
        /\ cliPc # "run"
        /\ cliPc = "exited" => cliExit # 0

\* auth and a known command were given together, and the process has exited
C6_Witness ==
    /\ AuthCombined
    /\ \A i \in 1..Len(cliArgs) : cliArgs[i] \in CommandWords
    /\ cliPc = "exited"
    /\ cliExit = 1

(***************************************************************************)
(* C8, C9                                                                  *)
(***************************************************************************)
\* the games the loop has been through
Attempted == { enabled_games[i] : i \in 1..(mnIdx - 1) }

\* C8: in run_daily_checkins (and in the same loop of main.py) an error
\* raised by a game's routine never ends the loop: the game gets FAILED,
\* every game the loop has been through has one of the six results, and
\* when the loop returns it has been through every enabled game.
C8_Isolation ==
    mnEntry \in {"daily", "main"} =>
        /\ mnPc # "aborted"
        /\ mnCause # "game_error"
        /\ DOMAIN results = Attempted
        /\ \A g \in DOMAIN results : results[g] \in CheckinResult
        /\ \A i \in mnRaised :
              (\A j \in (i + 1)..(mnIdx - 1) : enabled_games[j] # enabled_games[i])
                  => results[enabled_games[i]] = "failed"
        /\ mnPc = "returned" => mnIdx = Len(enabled_games) + 1

\* run_daily_checkins has returned, a routine had raised, and a game after
\* it was still checked in
C8_Witness ==
    /\ mnEntry = "daily"
    /\ mnPc = "returned"
    /\ \E i \in mnRaised : \E j \in (i + 1)..Len(enabled_games) :
          /\ enabled_games[j] # enabled_games[i]
          /\ results[enabled_games[j]] = "success"
          /\ results[enabled_games[i]] = "failed"

\* C9 as stated: only an interrupt or an authentication failure ends the
\* run early, each of them with a non-zero exit status, and no error of a
\* game's routine changes the exit status.
C9_AsStated ==
    mnPc = "exited" =>
        /\ mnCause \in {"completed", "interrupt", "login", "no_session"}
        /\ mnCause \in {"interrupt", "login", "no_session"} => mnExit # 0

\* C9: an interrupt ends the process with status 0, as a run that reaches
\* its summary does; a failed login check, missing session data and an
\* unexpected error end it with status 1.  In main.py no error of a game's
\* routine ends the run; in checkin/main.py an exception that leaves a
\* routine does, with status 1.
C9_ExitStatus ==
    mnPc = "exited" =>
        /\ mnExit \in {0, 1}
        /\ mnExit = 0 <=> mnCause \in {"interrupt", "completed"}
        /\ mnExit = 1 <=> mnCause \in {"login", "no_session", "error", "game_error"}
        /\ mnCause = "game_error" => mnEntry = "legacy"
        /\ mnCause = "completed" => mnIdx = Len(enabled_games) + 1

\* main() of main.py was interrupted after a game's routine had raised
C9_Witness ==
    /\ mnEntry = "main"
    /\ mnPc = "exited"
    /\ mnCause = "interrupt"
    /\ mnExit = 0
    /\ mnRaised # {}

(***************************************************************************)
(* C10                                                                     *)
(***************************************************************************)
Classified == ceExc # NoExc /\ ceOut # NoValue

PlainClassified == Classified /\ ~ceExc.isCheckin

\* C10 as stated: the result is one of the six values, and for an error that
\* is no CheckinException a message containing "timeout" gives TIMEOUT_ERROR,
\* one containing "network" gives NETWORK_ERROR, one containing "session"
\* gives SESSION_EXPIRED, and one with no recognised keyword gives FAILED.
C10_AsStated ==
    Classified =>
        /\ ceOut \in CheckinResult
        /\ ~ceExc.isCheckin =>
            LET m == Lower(ceExc.msg) IN
            /\ Contains(m, KW_timeout) => ceOut = "timeout_error"
            /\ Contains(m, KW_network) => ceOut = "network_error"
            /\ Contains(m, KW_session) => ceOut = "session_expired"
            /\ ~HasAny(m, TimeoutKeywords \cup NetworkKeywords \cup SessionKeywords)
                   => ceOut = "failed"

\* C10 amended: the result is one of the six values, and for an error that is
\* no CheckinException a message containing "timeout" gives TIMEOUT_ERROR, one
\* containing "network" and no timeout keyword gives NETWORK_ERROR, one
\* containing "session" and neither a timeout nor a network keyword gives
\* SESSION_EXPIRED, and one with no recognised keyword gives FAILED.
C10_Classification ==
    Classified =>
        /\ ceOut \in CheckinResult
        /\ ~ceExc.isCheckin =>
            LET m == Lower(ceExc.msg) IN
            /\ Contains(m, KW_timeout) => ceOut = "timeout_error"
            /\ Contains(m, KW_network) /\ ~HasAny(m, TimeoutKeywords)
                   => ceOut = "network_error"
            /\ Contains(m, KW_session)
                 /\ ~HasAny(m, TimeoutKeywords \cup NetworkKeywords)
                   => ceOut = "session_expired"
            /\ ~HasAny(m, TimeoutKeywords \cup NetworkKeywords \cup SessionKeywords)
                   => ceOut = "failed"

\* a capitalised "Network ... session" message has been classified as a
\* network error
C10_Witness ==
    /\ PlainClassified
    /\ Contains(Lower(ceExc.msg), KW_network)
    /\ Contains(Lower(ceExc.msg), KW_session)
    /\ ~Contains(ceExc.msg, KW_network)
    /\ ceOut = "network_error"

(***************************************************************************)
(* C11                                                                     *)
(***************************************************************************)
\* C11 as stated: every entry that was in the ledger file when a run
\* started is in the file afterwards with the same message and timestamp,
\* also when the file could not be read at the start of the run.
C11_AsStated ==
    \A k \in StartEntries :
        /\ ledgerFile.kind = "json"
        /\ k \in DOMAIN ledgerFile.data
        /\ ledgerFile.data[k] = rrStart.data[k]

(***************************************************************************)
(* C12: the login check has two outcomes                                   *)
(***************************************************************************)
\* a login was completed in the interactive browser: the cookies the
\* context holds at the end are those of a logged-in account
LoginCompleted == liCall.env.cookies = "login"

\* C12: the login check ends with success or with failure and with nothing
\* else; it ends with success only when the headless check with the saved
\* session passed, or a login was completed in the interactive browser and
\* its session was saved; when the wait for the browser to be closed ends
\* by its timeout and no login was completed, it ends with failure
C12_AsStated ==
    liCall # NoLogin =>
        /\ liCall.ret \in {"True", "False"}
        /\ liCall.ret = "True" =>
               \/ liCall.verified
               \/ LoginCompleted /\ liCall.saved
        /\ (liCall.waited /\ liCall.env.manual = "timeout" /\ ~LoginCompleted) =>
               liCall.ret = "False"

(***************************************************************************)
(* C13: one browser at a time, closed when the routine returns             *)
(***************************************************************************)
\* the browsers open after the calls of a trace: a launch opens one, the
\* end of the with block ends those that are open.  browser.close() is not
\* counted, since it can fail.
RECURSIVE BrowsersAfter(_)
BrowsersAfter(tr) ==
    IF tr = <<>> THEN 0
    ELSE LET e == tr[Len(tr)]
             before == BrowsersAfter(SubSeq(tr, 1, Len(tr) - 1))
         IN IF e = "stop" THEN 0
            ELSE IF e \in {"launch", "login_launch"} THEN before + 1
            ELSE before

\* the routine calls that have returned and whose answer is not yet taken
ReturnedCalls ==
    (IF ciCall # NoCheckin THEN {ciCall} ELSE {})
        \cup (IF liCall # NoLogin THEN {[trace |-> liCall.trace, open |-> liCall.open]} ELSE {})
        \cup (IF rdCall # NoRedeemCall THEN {[trace |-> rdCall.trace, open |-> rdCall.open]} ELSE {})

Invocations(g) == Cardinality({ i \in 1..(mnIdx - 1) : enabled_games[i] = g })

\* C14 as stated: when the loop over the enabled games is over, the routine
\* of every enabled game has been invoked exactly once and the game has a
\* result
C14_AsStated ==
    (mnEntry \in {"daily", "main"} /\ mnPc \in {"returned", "exited"}
        /\ mnIdx > Len(enabled_games) /\ enabled_games # <<>>) =>
        \A i \in 1..Len(enabled_games) :
            /\ Invocations(enabled_games[i]) = 1
            /\ enabled_games[i] \in DOMAIN results

\* the known game a name of the list stands for, NoValue for the others
Named ==
    (<<"g","i">> :> "gi") @@ (<<" ","G","I">> :> "gi")
        @@ (<<"H","s","r"," ">> :> "hsr") @@ (<<"z","z","z">> :> "zzz")
        @@ (<<"g","i","x">> :> NoValue) @@ (<<" ">> :> NoValue)
        @@ (<<>> :> NoValue)

\* the known games named in a list of names, in the order of the list
RECURSIVE KnownGames(_)
KnownGames(names) ==
    IF names = <<>> THEN <<>>
    ELSE (IF Named[Head(names)] = NoValue THEN <<>> ELSE <<Named[Head(names)]>>)
             \o KnownGames(Tail(names))

\* C15: get_enabled_games returns the known games the variable names,
\* trimmed and whatever their case, in the order of the list; all three
\* games when the variable is unset or names no known game; never an empty
\* list
C15_EnabledGames ==
    egDone =>
        /\ egOut # <<>>
        /\ \A i \in 1..Len(egOut) : egOut[i] \in Games
        /\ IF egEnv.set /\ KnownGames(egEnv.names) # <<>>
           THEN egOut = KnownGames(egEnv.names)
           ELSE egOut = <<"gi", "hsr", "zzz">>

\* a list with a name in capitals and blanks, an unknown name and a known
\* one, in an order that is not the order of the enumeration
C15_Witness ==
    /\ egDone
    /\ egEnv.set
    /\ egEnv.names = << <<"z","z","z">>, <<"g","i","x">>, <<" ","G","I">> >>
    /\ egOut = <<"zzz", "gi">>

(***************************************************************************)
(* C16: the click and its one fallback                                     *)
(***************************************************************************)
\* the number of times a call stands in a trace
Count(tr, e) == Cardinality({ i \in 1..Len(tr) : tr[i] = e })

\* C16 as stated: the script-injected click is attempted exactly when the
\* direct click attempt raised, and once at most; the reward element is
\* clicked at most once; when both attempts fail the routine returns
\* FAILED and the success verification has not run
C16_AsStated ==
    (ciCall # NoCheckin /\ ciCall.routine = "base"
        /\ Count(ciCall.trace, "click") > 0) =>
        /\ Count(ciCall.trace, "click") = 1
        /\ Count(ciCall.trace, "js_click") <= 1
        /\ Count(ciCall.trace, "js_click") = 1 <=> ciCall.page.direct # "ok"
        /\ ciCall.clicked <= 1
        /\ (ciCall.page.direct # "ok" /\ ciCall.page.js # "ok"
                /\ ciCall.fault = NoFault) =>
               /\ ciCall.ret = "failed"
               /\ Count(ciCall.trace, "verify") = 0

(***************************************************************************)
(* C17, C18: the steps of redeem and the polling of the result             *)
(***************************************************************************)
\* a call of redeem that got to the steps: no browser call before them
\* raised
ReachedSteps ==
    /\ rdCall # NoRedeemCall
    /\ rdCall.routine = "redeem"
    /\ rdCall.fault \in {"none", "close"}

\* the steps a call has clicked, in the order of the clicks
StepsClicked ==
    SelectSeq(rdCall.trace, LAMBDA e : \E i \in 1..Len(Steps) : Steps[i] = e)

\* C17 as stated: after the submit step the result element is polled; the
\* attempt that finds it ends the polling with success and its text; when
\* no attempt finds it the result is no success with "Redemption status
\* unclear"; an attempt that does not find it is followed by another
C17_AsStated ==
    (ReachedSteps /\ rdCall.fault = "none" /\ rdCall.env.click = "ok"
        /\ rdCall.env.poll # "no_text") =>
        IF rdCall.env.gone < PollAttempts /\ rdCall.env.poll = "found"
        THEN /\ rdCall.success
             /\ rdCall.message = rdCall.env.text
             /\ rdCall.polls = rdCall.env.gone + 1
        ELSE /\ ~rdCall.success
             /\ rdCall.message = "Redemption status unclear"
             /\ rdCall.polls >= 2

\* C18 as stated: the steps are clicked in the order toggle, option,
\* submit; when the click of a step fails no later step is clicked, the
\* result element is not polled, and redeem returns no success with
\* "Failed to click <step>"
C18_AsStated ==
    ReachedSteps =>
        /\ \E k \in 0..Len(Steps) : StepsClicked = SubSeq(Steps, 1, k)
        /\ rdCall.env.click # "ok" =>
               /\ StepsClicked[Len(StepsClicked)] = rdCall.env.click
               /\ Count(rdCall.trace, "poll") = 0
               /\ rdCall.ret = "result"
               /\ ~rdCall.success
               /\ rdCall.message = FailedToClick(rdCall.env.click)

\* C18: the same, with the one way out the code has: when browser.close()
\* raises in the finally clause, redeem raises that error and returns no
\* result
C18_Steps ==
    ReachedSteps =>
        /\ \E k \in 0..Len(Steps) : StepsClicked = SubSeq(Steps, 1, k)
        /\ rdCall.env.click # "ok" =>
               /\ StepsClicked[Len(StepsClicked)] = rdCall.env.click
               /\ Count(rdCall.trace, "poll") = 0
               /\ IF rdCall.fault = "close"
                  THEN rdCall.ret = "raised"
                  ELSE /\ rdCall.ret = "result"
                       /\ ~rdCall.success
                       /\ rdCall.message = FailedToClick(rdCall.env.click)

\* the click of the region option failed after the toggle was clicked
C18_Witness ==
    /\ ReachedSteps
    /\ rdCall.fault = "none"
    /\ rdCall.env.click = "America region"
    /\ StepsClicked = <<"region selector toggle", "America region">>
    /\ rdCall.message = "Failed to click America region"

(***************************************************************************)
(* C19, C20: what a run of main_redeem puts into the ledger                *)
(***************************************************************************)
\* the pairs whose redemption succeeded in this run: the routine is invoked
\* only for pairs that are not in the ledger, so an invoked pair that is in
\* the ledger was put there by this run
SucceededInRun == rrInvoked \cap DOMAIN redeemed_codes

\* C19 as stated: a pair is in the ledger of a run only if the file had it
\* or the run redeemed it with success, and when the run has ended every
\* success of the run is in the ledger file
C19_AsStated ==
    /\ \A k \in DOMAIN redeemed_codes :
           k \in rrInvoked \/ (rrStart.kind = "json" /\ k \in DOMAIN rrStart.data)
    /\ rrPc = "done" =>
           \A k \in SucceededInRun :
               ledgerFile.kind = "json" /\ k \in DOMAIN ledgerFile.data

\* C20: a redemption that raises gives the row "Error: ..." for its code,
\* changes nothing in the ledger and leaves main_redeem in its loop, at the
\* next code; the loop is left only when the codes of the article are used
\* up, and only by the call of save_redeemed_codes
C20_Isolation ==
    /\ [](rrPc \in {"idle", "loop", "done"})
    /\ [](rrPc = "done" => rrIdx > Len(rrArticle.codes))
    /\ [][(rrPc = "loop" /\ rrRows' = rrRows + 1
              /\ rrLastRow'.message = "Error: browser") =>
             (rrPc' = "loop" /\ rrIdx' = rrIdx + 1
                 /\ redeemed_codes' = redeemed_codes)]_vars
    /\ [][(rrPc = "loop" /\ rrPc' # "loop") =>
             /\ rrPc' = "done"
             /\ \E fault \in {"none", "open", "write"} :
                    ledgerFile' = save_redeemed_codes(redeemed_codes, fault)]_vars

\* the first code of an article has raised and the loop stands at the
\* second
C20_Witness ==
    /\ rrPc = "loop"
    /\ rrLastRow.message = "Error: browser"
    /\ rrLastRow.code = rrArticle.codes[1]
    /\ rrIdx = 2
    /\ Len(rrArticle.codes) = 2

(***************************************************************************)
(* C21: the order of the steps of a check-in                               *)
(***************************************************************************)
\* the steps of the flow in the order the claim gives them
FlowOrder == <<"goto", "close_popups", "settle", "find", "click", "verify">>

\* the place of the first call e in a trace, 0 when it is not there
Pos(tr, e) ==
    IF Count(tr, e) = 0 THEN 0
    ELSE CHOOSE i \in 1..Len(tr) : tr[i] = e /\ \A j \in 1..(i - 1) : tr[j] # e

AutoLoginFailed ==
    /\ liCall # NoLogin
    /\ Count(liCall.trace, "login_goto") = 1
    /\ liCall.fault # "login_goto"
    /\ liCall.env.creds
    /\ liCall.env.auto # "ok"

\* C22: when a step of the automated login fails, no later step of it is
\* run, the flow waits for the browser to be closed and then captures and
\* saves the cookies as the manual flow does: the answer is the one the
\* manual flow gives for the same cookies and the same save
C22_Fallback ==
    AutoLoginFailed =>
        /\ liCall.waited
        /\ Count(liCall.trace, "manual_wait") = 1
        /\ \A i \in 1..Len(AutoSteps) :
               Count(liCall.trace, AutoSteps[i]) > 0 =>
                   /\ i <= Pos(AutoSteps, liCall.env.auto)
                   /\ Pos(liCall.trace, AutoSteps[i]) < Pos(liCall.trace, "manual_wait")
        /\ Pos(liCall.trace, "manual_wait") < Pos(liCall.trace, "cookies")
        /\ liCall.ret = wait_for_login_and_close(
                            [liCall.env EXCEPT !.creds = FALSE], liCall.fault).ret
        /\ liCall.ret = IF liCall.env.cookies \in {"anonymous", "login"} /\ liCall.env.save
                        THEN "True" ELSE "False"

\* the password could not be filled in, the user logged in by hand and the
\* session was saved
C22_Witness ==
    /\ AutoLoginFailed
    /\ liCall.env.auto = "password"
    /\ liCall.env.manual = "closed"
    /\ liCall.env.cookies = "login"
    /\ liCall.saved
    /\ liCall.ret = "True"

(***************************************************************************)
(* C23: the day window                                                     *)
(***************************************************************************)
\* the places of the entries of the search result that are in the window
InWindow ==
    { i \in 1..Len(fcIn.all_results) :
          fcIn.all_results[i].date >= fcIn.today - fcIn.days }

\* C23: search_recent_codes returns the entries of the search result whose
\* date is on or after today minus days, all of them and no other, in
\* their order and as they were
C23_DayWindow ==
    fcDone =>
        /\ Len(fcOut) = Cardinality(InWindow)
        /\ \E f \in [1..Len(fcOut) -> 1..Len(fcIn.all_results)] :
               /\ \A k \in 1..Len(fcOut) : f[k] \in InWindow
               /\ \A k \in 1..Len(fcOut) : fcOut[k] = fcIn.all_results[f[k]]
               /\ \A k, l \in 1..Len(fcOut) : k < l => f[k] < f[l]

\* an article of the cutoff date is kept, in front of it one that is a day
\* older is dropped
C23_Witness ==
    /\ fcDone
    /\ fcIn.days = 1
    /\ Len(fcIn.all_results) = 2
    /\ fcIn.all_results[1].date = fcIn.today - 2
    /\ fcIn.all_results[2].date = fcIn.today - 1
    /\ fcOut = <<fcIn.all_results[2]>>

(***************************************************************************)
(* C24: no second redemption after a success                               *)
(***************************************************************************)
\* C24: a step of the loop that invokes a redemption routine invokes it for
\* a pair that has not been redeemed with success in this run
C24_NoSecondRedemption ==
    [][(rrPc = "loop" /\ rrRows' = rrRows + 1
           /\ rrLastRow'.message # "Redeemed Before") =>
          <<rrLastRow'.game, rrLastRow'.code>> \notin SucceededInRun]_vars

\* a code that stands twice in an article: redeemed the first time, found
\* in the ledger the second time
C24_Witness ==
    /\ rrPc = "loop"
    /\ rrArticle.codes = <<"CODE1", "CODE1">>
    /\ rrIdx = 3
    /\ rrLastRow.message = "Redeemed Before"
    /\ <<rrLastRow.game, rrLastRow.code>> \in SucceededInRun

(***************************************************************************)
(* C30: the codes of an article of no known game                           *)
(***************************************************************************)
\* the keys of the ledger the known games have
GameKeys == { GAME_MAPPINGS[n] : n \in DOMAIN GAME_MAPPINGS }

\* C30: the inner loop runs only over the codes of an article of a known
\* game, every redemption invoked and every row is for a known game; the
\* step that takes an article of another game changes neither the ledger
\* nor the rows nor the set of pairs invoked, and leaves the run in its
\* loop, where the next article is taken
C30_UnknownGameSkipped ==
    /\ [](rrArticle.codes # <<>> => rrArticle.game \in DOMAIN GAME_MAPPINGS)
    /\ [](\A k \in rrInvoked : k[1] \in GameKeys)
    /\ [](rrRows > 0 => rrLastRow.game \in GameKeys)
    /\ [][(rrPc = "loop" /\ rrArtCount' = rrArtCount + 1 /\ rrArticle' = NoArticle) =>
             /\ rrPc' = "loop"
             /\ UNCHANGED <<redeemed_codes, rrInvoked, rrRows, ledgerFile>>]_vars

\* an article of no known game was passed over and the codes of the one
\* after it were redeemed
C30_Witness ==
    /\ rrPc = "loop"
    /\ rrArtCount = 2
    /\ rrRows = Len(rrArticle.codes)
    /\ rrArticle.codes # <<>>
    /\ rrLastRow.message = "Redeemed successfully"


(***************************************************************************)
(* C25, C26                                                                *)
(***************************************************************************)
\* what a load_session that meets no I/O error returns in the current state
LoadOutcome ==
    LET r == load_session({}) IN [isNone |-> r.isNone, data |-> r.data]

\* C25 as stated: a save_session that returns False leaves the session file
\* as it was, and a load_session after it returns what a load_session before
\* it would have returned.
C25_AsStated ==
    [][(ssLast'.op = "save" /\ ~ssLast'.ret)
          => (sessionFile' = sessionFile /\ LoadOutcome' = LoadOutcome)]_vars

\* C26 as stated: a load_session call leaves the session file and the key
\* file as they were.
C26_AsStated ==
    [][ssLast'.op = "load"
          => (sessionFile' = sessionFile /\ keyFile' = keyFile)]_vars


(***************************************************************************)
(* C27                                                                     *)
(***************************************************************************)
\* the last call was a load_session that met no I/O error, in a store whose
\* content the calls so far have set
LoadedFromKnownStore ==
    /\ ssLast.op = "load"
    /\ ssLast.clean
    /\ ssReg.known

\* C27 as stated: load_session returns the data of the most recent successful
\* save_session that no clear_session has followed, and None when there is no
\* such save, whatever the calls in between returned.
C27_AsStated ==
    LoadedFromKnownStore =>
        IF ssReg.has
        THEN ~ssLast.isNone /\ ssLast.data = ssReg.data
        ELSE ssLast.isNone


(***************************************************************************)
(* C28                                                                     *)
(***************************************************************************)
\* perform_checkin has run with no session data, with session data that has
\* no cookies, or with cookies that context.add_cookies refused
SessionNotUsable ==
    /\ ciCall # NoCheckin
    /\ ciCall.routine = "base"
    /\ \/ ciCall.session # "cookies"
       \/ ciCall.fault.at = "add_cookies"

\* no page was opened, the claim page was not requested, nothing was clicked
NoPageWork ==
    \A i \in 1..Len(ciCall.trace) :
        ciCall.trace[i] \notin {"new_page", "goto", "click", "js_click"}

\* the browser calls around the try block of perform_checkin
OutsideTry == {"launch", "new_context", "close"}

\* C28 as stated: without a usable session perform_checkin returns
\* SESSION_EXPIRED, having opened no page, requested no claim page and
\* clicked nothing.
C28_AsStated ==
    SessionNotUsable => (ciCall.ret = "session_expired" /\ NoPageWork)

\* C28 amended: without a usable session perform_checkin opens no page,
\* requests no claim page and clicks nothing; it returns SESSION_EXPIRED
\* unless launching the browser, creating the context or closing the browser
\* raises, and then that error reaches the caller.
C28_ShortCircuit ==
    SessionNotUsable =>
        /\ NoPageWork
        /\ ciCall.fault.at \notin OutsideTry => ciCall.ret = "session_expired"
        /\ ciCall.fault.at \in OutsideTry => ciCall.ret = "raised"

\* the cookies of a stored session were refused by the browser context, and
\* the routine returned SESSION_EXPIRED after closing the browser
C28_Witness ==
    /\ SessionNotUsable
    /\ ciCall.session = "cookies"
    /\ ciCall.ret = "session_expired"
    /\ ciCall.trace = <<"launch", "new_context", "add_cookies", "close", "stop">>


(***************************************************************************)
(* C29                                                                     *)
(***************************************************************************)
\* the kinds of keyword a lower-cased message contains
KeywordKinds(m) ==
    { k \in {"timeout", "network", "session"} :
        \/ k = "timeout" /\ HasAny(m, TimeoutKeywords)
        \/ k = "network" /\ HasAny(m, NetworkKeywords)
        \/ k = "session" /\ HasAny(m, SessionKeywords) }

\* C29: classify_error returns the result a CheckinException carries,
\* whatever its message; for any other error with keywords of several kinds
\* in its message a timeout keyword decides before a network keyword and a
\* network keyword before a session keyword; and two such errors whose
\* messages are equal once lower-cased get the same result.
C29_Precedence ==
    Classified =>
        /\ ceExc.isCheckin => ceOut = ceExc.result
        /\ ~ceExc.isCheckin =>
            LET m == Lower(ceExc.msg) IN
            /\ "timeout" \in KeywordKinds(m) => ceOut = "timeout_error"
            /\ ("network" \in KeywordKinds(m) /\ "timeout" \notin KeywordKinds(m))
                   => ceOut = "network_error"
            /\ KeywordKinds(m) = {"session"} => ceOut = "session_expired"
            /\ ceOut = classify_error([ceExc EXCEPT !.msg = m])
            /\ \A e \in Exceptions :
                   (~e.isCheckin /\ Lower(e.msg) = m) => classify_error(e) = ceOut

\* a capitalised message with a network keyword before a timeout keyword has
\* been classified as a timeout, and a CheckinException whose message holds a
\* network keyword would be classified by the result it carries
C29_Witness ==
    /\ PlainClassified
    /\ KeywordKinds(Lower(ceExc.msg)) = {"timeout", "network"}
    /\ ceExc.msg # Lower(ceExc.msg)
    /\ ceExc.msg[1] = "C"
    /\ ceOut = "timeout_error"
    /\ classify_error([isCheckin |-> TRUE, result |-> "success", msg |-> KW_network])
           = "success"

====
